---- MODULE Spec2Model ----
(***************************************************************************)
(* Debate orchestration and consensus engine of icracy (src/server.js),    *)
(* with the legacy JSON-archive server (src/unnamed/part_000).              *)
(*                                                                         *)
(* One state machine step is one uninterrupted run of the Node event loop: *)
(* a handler runs from its start (or from the resumption of an await) to   *)
(* its next await or its end.  The store (better-sqlite3) is synchronous,  *)
(* so every statement between two awaits belongs to the same step.         *)
(***************************************************************************)
EXTENDS Integers, Sequences, FiniteSets, TLC

----------------------------------------------------------------------------
(* Bounds of the model *)

MaxDelegates == 2
MaxRequest == 2
MaxClock == 2
MaxRows == 3
MaxArchive == 2
MaxSessions == 1
MaxServed == 1
MaxLen == 4
MaxCatalog == 7
MaxPool == 11
MaxCalls == 2
MaxParts == 3
MaxDrafts == 1
MaxPings == 1

----------------------------------------------------------------------------
(* Values *)

NULL == "NULL"
NullInt == -1

DelegateCap == 6
FallbackLimit == 4
DefaultPct == 50

Universe == <<"m1", "m2", "m3", "m4", "m5", "m6", "m7", "m8", "m9">>
Unknown == "zz"

Min(a, b) == IF a < b THEN a ELSE b

(* delegate_models after syncDelegates, in rank order; rows are upserted   *)
(* and never deleted, so the catalog is fixed while the server runs.       *)
Catalog == SubSeq(Universe, 1, Min(MaxDelegates, Len(Universe)))

Range(s) == {s[i] : i \in 1..Len(s)}

AllDebates == {"d1", "d2"}
Debates == {"d1"}
LegacyIds == <<"L1", "L2", "L3">>

(* users: the default user, created when the server is loaded, and a user  *)
(* named by the x-user-id header                                           *)
DefaultUser == "u1"
Headers == {"", "u2"}

(* ids of the resolutions made by POST /v1/drafts *)
DraftIds == <<"r1", "r2", "r3">>
Drafts == {DraftIds[i] : i \in 1..MaxDrafts}

(* connections to GET /v1/debates/:id/stream *)
Sessions == 1..MaxSessions

SeqsUpTo(S, n) == UNION {[1..k -> S] : k \in 0..n}

----------------------------------------------------------------------------
(* Strings with content are sequences of characters *)

Lower(c) ==
  CASE c = "I" -> "i"
    [] c = "D" -> "d"
    [] c = "O" -> "o"
    [] c = "T" -> "t"
    [] c = "C" -> "c"
    [] c = "N" -> "n"
    [] c = "E" -> "e"
    [] c = "L" -> "l"
    [] c = "G" -> "g"
    [] OTHER -> c

ToLowerCase_Identity(s) == s

ToLowerCase(s) == [i \in 1..Len(s) |-> Lower(s[i])]

RECURSIVE TrimStart(_)
TrimStart(s) == IF s # <<>> /\ Head(s) = " " THEN TrimStart(Tail(s)) ELSE s

RECURSIVE TrimEnd(_)
TrimEnd(s) ==
  IF s # <<>> /\ s[Len(s)] = " " THEN TrimEnd(SubSeq(s, 1, Len(s) - 1)) ELSE s

Trim(s) == TrimEnd(TrimStart(s))

StartsWith(s, p) == Len(s) >= Len(p) /\ SubSeq(s, 1, Len(p)) = p

normalizeVote(vote) ==
  LET normalized == ToLowerCase(Trim(vote))
  IN IF StartsWith(normalized, <<"i", "d", "i">>) THEN "Idiotic" ELSE "Intelligent"

(* the characters of the two votes *)
Spell(vote) ==
  IF vote = "Idiotic"
    THEN <<"I", "d", "i", "o", "t", "i", "c">>
    ELSE <<"I", "n", "t", "e", "l", "l", "i", "g", "e", "n", "t">>

(* vote texts: every string of a few characters that matter to the rule *)
Alphabet == {"i", "I", "d", "D", " ", "n"}
VoteTexts == SeqsUpTo(Alphabet, MaxLen)

----------------------------------------------------------------------------
(* Response parser *)

(* JavaScript values.  Numbers are counted in tenths, 725 being 72.5, so   *)
(* that a confidence with a fraction can be told from a whole one.         *)
Undefined == [type |-> "undefined"]
Null == [type |-> "null"]
NaN == [type |-> "NaN"]
Str(chars) == [type |-> "string", chars |-> chars]
Numb(tenths) == [type |-> "number", tenths |-> tenths]
Object(fields) == [type |-> "object", fields |-> fields]

(* parsed.key *)
Get(object, key) ==
  IF key \in DOMAIN object.fields THEN object.fields[key] ELSE Undefined

ToBoolean(v) ==
  CASE v.type = "string" -> v.chars # <<>>
    [] v.type = "number" -> v.tenths # 0
    [] v.type = "object" -> TRUE
    [] OTHER -> FALSE

(* a || b *)
Or(a, b) == IF ToBoolean(a) THEN a ELSE b

DigitChars == <<"0", "1", "2", "3", "4", "5", "6", "7", "8", "9">>
IsDigit(c) == c \in Range(DigitChars)
DigitValue(c) == (CHOOSE i \in 1..Len(DigitChars) : DigitChars[i] = c) - 1
AllDigits(s) == \A i \in 1..Len(s) : IsDigit(s[i])

RECURSIVE parseDigits(_, _)
parseDigits(s, n) ==
  IF n = 0 THEN 0 ELSE parseDigits(s, n - 1) * 10 + DigitValue(s[n])

RECURSIVE IntChars(_)
IntChars(n) ==
  IF n < 10 THEN <<DigitChars[n + 1]>>
  ELSE Append(IntChars(n \div 10), DigitChars[(n % 10) + 1])

NumberChars(tenths) ==
  LET abs == IF tenths < 0 THEN -tenths ELSE tenths
  IN (IF tenths < 0 THEN <<"-">> ELSE <<>>)
       \o IntChars(abs \div 10)
       \o (IF abs % 10 # 0 THEN <<".", DigitChars[(abs % 10) + 1]>> ELSE <<>>)

(* Number(v), for the values above; of strings, those of digits only       *)
(* convert to a number other than NaN                                      *)
ToNumber(v) ==
  CASE v.type = "number" -> v
    [] v.type = "null" -> Numb(0)
    [] v.type = "string" ->
         LET t == Trim(v.chars)
         IN IF t = <<>> THEN Numb(0)
            ELSE IF AllDigits(t) THEN Numb(10 * parseDigits(t, Len(t)))
            ELSE NaN
    [] OTHER -> NaN

(* String(v) *)
StringOf(v) ==
  CASE v.type = "string" -> v.chars
    [] v.type = "number" -> NumberChars(v.tenths)
    [] v.type = "null" -> <<"n", "u", "l", "l">>
    [] v.type = "NaN" -> <<"N", "a", "N">>
    [] v.type = "object" -> <<"[object Object]">>
    [] OTHER -> <<"undefined">>

Max(a, b) == IF a > b THEN a ELSE b

clamp(value, min, max) == Max(min, Min(max, value))

(* A raw text is a sequence of elements [c |-> character]; the members of  *)
(* a JSON object written in it, the characters between its braces, are one *)
(* element that holds the fields they spell, or spell but for a trailing   *)
(* comma (ok = FALSE)                                                      *)
Ch(c) == [c |-> c]
Members(ok, fields) == [c |-> "members", ok |-> ok, fields |-> fields]
Text(chars) == [i \in 1..Len(chars) |-> Ch(chars[i])]

KeyOrder ==
  <<"vote", "verdict", "confidence", "argument", "reasoning", "rebuttal",
    "counterpoint">>

ValueChars(v) ==
  CASE v.type = "string" -> <<"\"">> \o v.chars \o <<"\"">>
    [] v.type = "number" -> NumberChars(v.tenths)
    [] OTHER -> <<"n", "u", "l", "l">>

RECURSIVE MemberChars(_, _)
MemberChars(fields, n) ==
  IF n = 0 THEN <<>>
  ELSE LET before == MemberChars(fields, n - 1)
           key == KeyOrder[n]
       IN IF key \notin DOMAIN fields THEN before
          ELSE before \o (IF before = <<>> THEN <<>> ELSE <<",">>)
                 \o <<"\"", key, "\"", ":">> \o ValueChars(fields[key])

(* the characters of a raw text *)
RECURSIVE Flatten(_)
Flatten(raw) ==
  IF raw = <<>> THEN <<>>
  ELSE LET e == Head(raw)
       IN (IF e.c = "members"
             THEN MemberChars(e.fields, Len(KeyOrder))
                    \o (IF e.ok THEN <<>> ELSE <<",">>)
             ELSE <<e.c>>)
            \o Flatten(Tail(raw))

RECURSIVE Strip(_)
Strip(raw) ==
  IF raw # <<>> /\ Head(raw).c = " " THEN Strip(Tail(raw))
  ELSE IF raw # <<>> /\ raw[Len(raw)].c = " " THEN Strip(SubSeq(raw, 1, Len(raw) - 1))
  ELSE raw

Threw == [ok |-> FALSE, value |-> Undefined]

(* JSON.parse(text): an object, a number, or a SyntaxError *)
JSONparse(raw) ==
  LET t == Strip(raw)
  IN IF Len(t) = 3 /\ t[1].c = "{" /\ t[2].c = "members" /\ t[3].c = "}"
       THEN IF t[2].ok THEN [ok |-> TRUE, value |-> Object(t[2].fields)] ELSE Threw
     ELSE IF Len(t) = 2 /\ t[1].c = "{" /\ t[2].c = "}"
       THEN [ok |-> TRUE, value |-> Object(<<>>)]
     ELSE IF /\ t # <<>>
             /\ \A i \in 1..Len(t) : IsDigit(t[i].c)
             /\ (Len(t) = 1 \/ t[1].c # "0")
       THEN [ok |-> TRUE, value |-> Numb(10 * parseDigits(Flatten(t), Len(t)))]
     ELSE Threw

(* text.indexOf(c) and text.lastIndexOf(c), counted from 1; 0 for none *)
indexOf(raw, c) ==
  LET at == {i \in 1..Len(raw) : raw[i].c = c}
  IN IF at = {} THEN 0 ELSE CHOOSE i \in at : \A j \in at : i <= j

lastIndexOf(raw, c) ==
  LET at == {i \in 1..Len(raw) : raw[i].c = c}
  IN IF at = {} THEN 0 ELSE CHOOSE i \in at : \A j \in at : i >= j

maybeParseJsonObject(raw) ==
  IF raw = <<>> THEN Null
  ELSE LET strict == JSONparse(raw)
           start == indexOf(raw, "{")
           end == lastIndexOf(raw, "}")
       IN IF strict.ok THEN strict.value
          ELSE IF start = 0 \/ end = 0 \/ start >= end THEN Null
          ELSE LET inner == JSONparse(SubSeq(raw, start, end))
               IN IF inner.ok THEN inner.value ELSE Null

(* s.replace(/\s+/g, " ") *)
RECURSIVE Collapse(_)
Collapse(s) ==
  IF Len(s) < 2 THEN s
  ELSE IF s[1] = " " /\ s[2] = " " THEN Collapse(Tail(s))
  ELSE <<s[1]>> \o Collapse(Tail(s))

(* \w is a letter, a digit or "_" *)
NonWordChars == {" ", "%", "{", "}", "\"", ":", ",", ".", "-", "?"}
IsWordChar(c) == c \notin NonWordChars

(* \b before position i of s *)
Boundary(s, i) ==
  (i > 1 /\ i - 1 <= Len(s) /\ IsWordChar(s[i - 1]))
    # (i >= 1 /\ i <= Len(s) /\ IsWordChar(s[i]))

Least_Last(S) == CHOOSE i \in S : \A j \in S : i >= j

(* the leftmost of the positions at which a pattern matches *)
Least(S) == CHOOSE i \in S : \A j \in S : i <= j

Idiotic == <<"I", "d", "i", "o", "t", "i", "c">>
Intelligent == <<"I", "n", "t", "e", "l", "l", "i", "g", "e", "n", "t">>

WordAt(s, i, word) ==
  /\ i + Len(word) - 1 <= Len(s)
  /\ ToLowerCase(SubSeq(s, i, i + Len(word) - 1)) = ToLowerCase(word)
  /\ Boundary(s, i)
  /\ Boundary(s, i + Len(word))

(* fallback.match(/\b(Intelligent|Idiotic)\b/i): the text of group 1 of    *)
(* the leftmost match, <<>> for no match                                   *)
voteMatch(s) ==
  LET at == {i \in 1..Len(s) : WordAt(s, i, Intelligent) \/ WordAt(s, i, Idiotic)}
  IN IF at = {} THEN <<>>
     ELSE IF WordAt(s, Least(at), Idiotic)
       THEN SubSeq(s, Least(at), Least(at) + Len(Idiotic) - 1)
     ELSE SubSeq(s, Least(at), Least(at) + Len(Intelligent) - 1)

(* \s*% at position j of s *)
PercentAt(s, j) ==
  \E m \in j..Len(s) : s[m] = "%" /\ \A x \in j..(m - 1) : s[x] = " "

(* \b(\d{1,3})\s*% at position i of s with a group of k digits *)
DigitsAt(s, i, k) ==
  /\ Boundary(s, i)
  /\ i + k - 1 <= Len(s)
  /\ AllDigits(SubSeq(s, i, i + k - 1))
  /\ PercentAt(s, i + k)

(* fallback.match(/\b(\d{1,3})\s*%/): group 1 of the leftmost match *)
confidenceMatch(s) ==
  LET at == {i \in 1..Len(s) : \E k \in 1..3 : DigitsAt(s, i, k)}
  IN IF at = {} THEN <<>>
     ELSE LET i == Least(at)
              k == CHOOSE k \in 1..3 : DigitsAt(s, i, k)
          IN SubSeq(s, i, i + k - 1)

NoArgument == <<"No argument returned.">>

parseDelegateOutput(raw) ==
  LET fallback == Trim(Collapse(Flatten(raw)))
      parsed == maybeParseJsonObject(raw)
  IN IF parsed.type = "object"
       THEN LET vote == Or(Or(Get(parsed, "vote"), Get(parsed, "verdict")), Str(<<>>))
                number == ToNumber(Get(parsed, "confidence"))
                argument ==
                  Or(Or(Or(Get(parsed, "argument"), Get(parsed, "reasoning")),
                        Str(fallback)),
                     Str(NoArgument))
                rebuttal ==
                  Or(Or(Get(parsed, "rebuttal"), Get(parsed, "counterpoint")), Str(<<>>))
            IN [vote |-> normalizeVote(StringOf(vote)),
                confidence |-> clamp(IF ToBoolean(number) THEN number.tenths ELSE 550,
                                     10, 1000),
                argument |-> Trim(StringOf(argument)),
                rebuttal |-> Trim(StringOf(rebuttal))]
       ELSE LET matched == voteMatch(fallback)
                percent == confidenceMatch(fallback)
            IN [vote |-> normalizeVote(IF matched # <<>> THEN matched ELSE Intelligent),
                confidence |->
                  clamp(IF percent # <<>> THEN 10 * parseDigits(percent, Len(percent))
                        ELSE 550,
                        10, 1000),
                argument |-> IF fallback # <<>> THEN fallback ELSE NoArgument,
                rebuttal |-> <<>>]

----------------------------------------------------------------------------
(* Consensus engine *)

(* JavaScript truthiness of a nullable string: null and "" are falsy *)
Truthy(s) == s # NULL /\ s # ""

(* ToNumber(null) is 0 in "weight += row.confidence" *)
Num(c) == IF c = NullInt THEN 0 ELSE c

MathRound_Floor(a, b) == a \div b

(* Math.round of the non-negative rational a/b: floor(a/b + 1/2) *)
MathRound(a, b) == (2 * a + b) \div (2 * b)

ZeroTally == [iv |-> 0, dv |-> 0, iw |-> 0, dw |-> 0]

AddVote(t, row) ==
  IF row.vote = "Idiotic"
    THEN [t EXCEPT !.dv = @ + 1, !.dw = @ + Num(row.confidence)]
    ELSE [t EXCEPT !.iv = @ + 1, !.iw = @ + Num(row.confidence)]

Verdict_ByWeight(t) == IF t.dw > t.iw THEN "Idiotic" ELSE "Intelligent"

Verdict(t) ==
  IF t.dv > t.iv THEN "Idiotic"
  ELSE IF t.dv = t.iv THEN (IF t.dw > t.iw THEN "Idiotic" ELSE "Intelligent")
  ELSE "Intelligent"

IntelligentPct(t) ==
  IF t.iv + t.dv # 0 THEN MathRound(t.iv * 100, t.iv + t.dv) ELSE DefaultPct

ConsensusOf(t) ==
  [verdict |-> Verdict(t),
   intelligentVotes |-> t.iv,
   idioticVotes |-> t.dv,
   totalVotes |-> t.iv + t.dv,
   intelligentPct |-> IntelligentPct(t),
   idioticPct |-> 100 - IntelligentPct(t)]

RECURSIVE Tally(_, _)
Tally(rows, n) ==
  IF n = 0 THEN ZeroTally
  ELSE LET t == Tally(rows, n - 1)
       IN IF Truthy(rows[n].error) THEN t ELSE AddVote(t, rows[n])

computeConsensus(delegateRows) == ConsensusOf(Tally(delegateRows, Len(delegateRows)))

(* The legacy server's computeConsensus.  Its failed results carry no    *)
(* confidence field: "weight += undefined" makes the weight NaN, and every *)
(* comparison with NaN is false.                                           *)
Successful(item) == ~Truthy(item.error)

ZeroTallyLegacy ==
  [iv |-> 0, dv |-> 0, iw |-> 0, dw |-> 0, iwNaN |-> FALSE, dwNaN |-> FALSE]

AddVoteLegacy(t, result) ==
  IF result.vote = "Idiotic"
    THEN [t EXCEPT !.dv = @ + 1, !.dw = @ + Num(result.confidence),
                   !.dwNaN = @ \/ result.confidence = NullInt]
    ELSE [t EXCEPT !.iv = @ + 1, !.iw = @ + Num(result.confidence),
                   !.iwNaN = @ \/ result.confidence = NullInt]

RECURSIVE TallyLegacy(_, _)
TallyLegacy(successful, n) ==
  IF n = 0 THEN ZeroTallyLegacy
  ELSE AddVoteLegacy(TallyLegacy(successful, n - 1), successful[n])

VerdictLegacy(t) ==
  IF t.dv > t.iv THEN "Idiotic"
  ELSE IF t.dv = t.iv
    THEN (IF ~t.dwNaN /\ ~t.iwNaN /\ t.dw > t.iw THEN "Idiotic" ELSE "Intelligent")
  ELSE "Intelligent"

computeConsensusLegacy(delegateResults) ==
  LET successful == SelectSeq(delegateResults, Successful)
      t == TallyLegacy(successful, Len(successful))
  IN [verdict |-> VerdictLegacy(t),
      intelligentVotes |-> t.iv,
      idioticVotes |-> t.dv,
      totalVotes |-> t.iv + t.dv,
      intelligentPct |-> IntelligentPct(t),
      idioticPct |-> 100 - IntelligentPct(t)]

----------------------------------------------------------------------------
(* Delegate selection *)

RECURSIVE Dedupe(_)
Dedupe(s) ==
  IF s = <<>> THEN <<>>
  ELSE LET init == Dedupe(SubSeq(s, 1, Len(s) - 1))
           last == s[Len(s)]
       IN IF last \in Range(init) THEN init ELSE Append(init, last)

NonEmptyId(id) == id # ""
Known(id) == id \in Range(Catalog)

(* ids written with spaces around them, and what String(id).trim() makes   *)
(* of them                                                                 *)
Padded == " m1 "
Blank == " "
TrimId(id) ==
  CASE id = Padded -> "m1"
    [] id = Blank -> ""
    [] OTHER -> id

slice_All(s, end) == s

(* s.slice(0, end) *)
slice(s, end) == SubSeq(s, 1, Min(end, Len(s)))

(* getDelegates(limit) on a delegate_models table whose ids, in rank       *)
(* order, are catalog                                                      *)
getDelegatesFrom(catalog, limit) == SubSeq(catalog, 1, Min(limit, Len(catalog)))

(* pickDelegates on that table *)
pickDelegatesFrom(catalog, delegateIds, fallbackLimit) ==
  LET trimmed == [i \in 1..Len(delegateIds) |-> TrimId(delegateIds[i])]
      sanitized == Dedupe(SelectSeq(trimmed, NonEmptyId))
      known ==
        IF Len(delegateIds) # 0
          THEN SelectSeq(sanitized, LAMBDA id : id \in Range(catalog))
          ELSE <<>>
      candidates ==
        IF known = <<>> THEN getDelegatesFrom(catalog, fallbackLimit) ELSE known
  IN slice(candidates, DelegateCap)

getDelegates(limit) == getDelegatesFrom(Catalog, limit)

pickDelegates(delegateIds, fallbackLimit) ==
  pickDelegatesFrom(Catalog, delegateIds, fallbackLimit)

(* requests and catalogs for pickDelegates alone: the catalog is the first *)
(* rows of the universe, at least one (the middleware's syncDelegates      *)
(* leaves the table non-empty); the request is req.body.delegates, any     *)
(* selection of the entries of Pool in their order, or absent              *)
Pool ==
  <<"m3", Unknown, "m1", Padded, "", "m2", "m3", "m4", "m5", "m6", "m7", Blank,
    "m8", "m9">>

RECURSIVE SubSeqs(_, _)
SubSeqs(s, n) ==
  IF n = 0 THEN {<<>>}
  ELSE LET shorter == SubSeqs(s, n - 1)
       IN shorter \cup {Append(t, s[n]) : t \in shorter}

PickInputs ==
  {[catalog |-> SubSeq(Universe, 1, c), delegates |-> r] :
     c \in 1..Min(MaxCatalog, Len(Universe)),
     r \in SubSeqs(Pool, Min(MaxPool, Len(Pool)))}

(* req.body.delegates *)
Requests == SeqsUpTo(Range(Catalog) \cup {Unknown}, MaxRequest)

(* req.body.userVote: absent, or a vote text *)
UserVotes == {<<>>, <<"I", "D", "I", "O", "T", "I", "C">>}

----------------------------------------------------------------------------
(* State *)

VARIABLES
  now,            \* the wall clock read by nowIso(), in milliseconds
  booted,         \* start() has run bootstrapFromLegacyArchive and listens
  archive,        \* content of data/archive.json, written by the legacy server
  resolutions,    \* table resolutions: id -> row
  debates,        \* table debates: id -> row
  delegateVotes,  \* table delegate_votes, in rowid order
  messages,       \* table debate_messages, in rowid order
  picks,          \* table resolution_delegate_picks: <<resolution, model>>
  humanVotes,     \* table human_votes: its rows
  humanArguments, \* table human_arguments, in rowid order
  snapshots,      \* number of rows of leaderboard_snapshots
  events,         \* events emitted on runtime.streamBus, in emission order
  pc,             \* position of the submit handler of each debate
  delegateIds,    \* the delegateIds argument of runDebateForResolution
  userVote,       \* the userVote argument of submitResolutionPayload
  calls,          \* the promises of delegateIds.map(runDelegateDebate)
  thrown,         \* the failure whose error the handler passed to next(error)
  returned,       \* the view the submit handler answered with: its debate row
                  \* and the set of its delegate rows
  users,          \* table users: the ids of its rows
  listeners,      \* listeners registered on runtime.streamBus
  streams,        \* per connection: the debate of its open stream, and the
                  \* length of the event log when it opened
  delivered,      \* per open stream: the events its listener has sent, by position
  served,         \* number of human, stream and rejected requests answered
  last,           \* route and status of the last of these requests
  results,        \* computeConsensus alone: the settled calls it is given
  computed,       \* computeConsensus alone: what both versions return
  voteText,       \* normalizeVote alone: the vote text it is given
  normalizedVote, \* normalizeVote alone: its vote, and its vote on that vote
  given,          \* another function alone: the arguments it is given
  got,            \* another function alone: what it returns
  delegateModels, \* table delegate_models: id -> rank_position
  expiresAt,      \* runtime.delegateSync.expiresAt
  syncs,          \* the calls of syncDelegates: position, arguments and result
  archiveInMemory, \* runtimeState.archiveInMemory of the legacy server
  appends         \* the calls of appendArchive of the legacy server

legacy == <<archiveInMemory, appends>>

catalogSync == <<delegateModels, expiresAt, syncs>>

vars == <<now, booted, archive, resolutions, picks, debates, delegateVotes, messages,
          humanVotes, humanArguments, snapshots, events, pc, delegateIds, userVote, calls,
          thrown, returned, users, listeners, streams, delivered, served, last,
          results, computed, voteText, normalizedVote, given, got, catalogSync, legacy>>

engine == <<results, computed, voteText, normalizedVote, given, got, catalogSync, legacy>>

store == <<resolutions, picks, debates, delegateVotes, messages, humanVotes,
           humanArguments, snapshots>>

clients == <<users, listeners, streams, served, last>>

(* the requests whose syncDelegates may be in flight at once *)
SyncCallers == 1..MaxCalls

NoFetch == [catalog |-> "none", rankings |-> "none", rows |-> <<>>]

NoSync == [pc |-> "idle", limit |-> 0, since |-> 0, fetched |-> NoFetch, value |-> <<>>]

NoAppend == [pc |-> "idle", items |-> <<>>, order |-> 0]

NoStream == [debateId |-> NULL, since |-> 0, keepAlive |-> FALSE, pings |-> 0]

NoFault == [at |-> "none", index |-> 0]

NoConsensus ==
  [verdict |-> NULL, intelligentVotes |-> 0, idioticVotes |-> 0, totalVotes |-> 0,
   intelligentPct |-> DefaultPct, idioticPct |-> DefaultPct]

NoView == [status |-> NULL, consensus |-> NoConsensus, delegateResults |-> {}]

(* A rejection reason: an Error with a message, or any other thrown value   *)
Error(message) == [isError |-> TRUE, message |-> message, text |-> "Error"]
NoReason == [isError |-> FALSE, message |-> NULL, text |-> "undefined"]

Pending ==
  [status |-> "pending", vote |-> NULL, confidence |-> NullInt, argument |-> NULL,
   rebuttal |-> NULL, reason |-> NoReason]

(* What a delegate call can settle with: the value returned by             *)
(* runDelegateDebate, or the message of the Error it throws (its own       *)
(* Errors, or whatever fetch() and response.text() reject with).           *)
FulfilledValues ==
  {[vote |-> "Intelligent", confidence |-> 80], [vote |-> "Idiotic", confidence |-> 60]}
RejectReasons == {"", "HTTP 500"}

(* parseDelegateOutput returns a non-empty argument and a rebuttal that may *)
(* be empty                                                                *)
Fulfilled(v) ==
  [status |-> "fulfilled", vote |-> v.vote, confidence |-> v.confidence,
   argument |-> "argument", rebuttal |-> "", reason |-> NoReason]
Rejected(msg) ==
  [status |-> "rejected", vote |-> NULL, confidence |-> NullInt, argument |-> NULL,
   rebuttal |-> NULL, reason |-> Error(msg)]

InitStore ==
  /\ booted = FALSE
  /\ resolutions = <<>>
  /\ picks = {}
  /\ debates = <<>>
  /\ delegateVotes = <<>>
  /\ messages = <<>>
  /\ humanVotes = {}
  /\ humanArguments = <<>>
  /\ snapshots = 0
  /\ events = <<>>
  /\ pc = [d \in AllDebates |-> "idle"]
  /\ delegateIds = [d \in AllDebates |-> <<>>]
  /\ userVote = [d \in AllDebates |-> <<>>]
  /\ calls = [d \in AllDebates |-> <<>>]
  /\ thrown = [d \in AllDebates |-> NoFault]
  /\ returned = [d \in AllDebates |-> NoView]
  /\ users = {DefaultUser}
  /\ listeners = {}
  /\ streams = [s \in Sessions |-> NoStream]
  /\ delivered = [s \in Sessions |-> <<>>]
  /\ served = 0
  /\ last = "none"
  /\ computed = <<>>
  /\ normalizedVote = <<>>
  /\ got = <<>>
  /\ delegateModels = <<>>
  /\ expiresAt = 0
  /\ syncs = [r \in SyncCallers |-> NoSync]
  /\ archiveInMemory = NULL
  /\ appends = [r \in SyncCallers |-> NoAppend]

InitOrchestrator ==
  /\ now = 0
  /\ InitStore

----------------------------------------------------------------------------
(* Reads *)

(* ORDER BY created_at ASC: rows come in non-decreasing created_at; SQL    *)
(* leaves the order of rows with equal created_at undefined, so a query    *)
(* has one possible result per arrangement of the ties.                    *)
RECURSIVE OrderBy(_, _)
OrderBy(S, key) ==
  IF S = {} THEN {<<>>}
  ELSE UNION {{<<i>> \o rest : rest \in OrderBy(S \ {i}, key)} :
              i \in {j \in S : \A k \in S : key[j] <= key[k]}}

RowsOf(table, debateId) == {i \in 1..Len(table) : table[i].debateId = debateId}

CreatedAt(table) == [i \in 1..Len(table) |-> table[i].createdAt]

Select(table, order) == [k \in 1..Len(order) |-> table[order[k]]]

mapDebateRow(row) ==
  [status |-> row.status,
   consensus |-> [verdict |-> row.verdict,
                  intelligentVotes |-> row.intelligentVotes,
                  idioticVotes |-> row.idioticVotes,
                  totalVotes |-> row.totalVotes,
                  intelligentPct |-> row.intelligentPct,
                  idioticPct |-> row.idioticPct]]

(* The views getDebateById can return in a store state: one per order in   *)
(* which the two ORDER BY queries can deliver their rows                   *)
getDebateById(dbDebates, dbVotes, dbMessages, debateId) ==
  LET mapped == mapDebateRow(dbDebates[debateId])
  IN {[status |-> mapped.status,
       consensus |-> mapped.consensus,
       delegateResults |-> Select(dbVotes, vo),
       messages |-> Select(dbMessages, mo)] :
        vo \in OrderBy(RowsOf(dbVotes, debateId), CreatedAt(dbVotes)),
        mo \in OrderBy(RowsOf(dbMessages, debateId), CreatedAt(dbMessages))}

(* What every one of these views holds, whatever the order of its rows *)
returnedView(dbDebates, dbVotes, debateId) ==
  LET mapped == mapDebateRow(dbDebates[debateId])
  IN [status |-> mapped.status,
      consensus |-> mapped.consensus,
      delegateResults |-> {dbVotes[i] : i \in RowsOf(dbVotes, debateId)}]

----------------------------------------------------------------------------
(* Events *)

Event(debateId, type, consensus, totalDelegates, at) ==
  [debateId |-> debateId, type |-> type, consensus |-> consensus,
   totalDelegates |-> totalDelegates, userId |-> NULL, vote |-> NULL, at |-> at]

HumanEvent(debateId, type, userId, vote, at) ==
  [debateId |-> debateId, type |-> type, consensus |-> NoConsensus,
   totalDelegates |-> 0, userId |-> userId, vote |-> vote, at |-> at]

eventName_Shared(debateId) == <<"debate">>

(* `debate:${debateId}` *)
eventName(debateId) == <<"debate", debateId>>

Listener(session, debateId) == [session |-> session, event |-> eventName(debateId)]

(* runtime.streamBus.emit: every listener registered under the event's name *)
(* is called, synchronously, and sends the event on its stream; the event  *)
(* is the one at position Len(log) + 1 of the log                          *)
emitDebateEvent(recv, registered, log, event) ==
  [s \in Sessions |->
     IF Listener(s, event.debateId) \in registered
       THEN Append(recv[s], Len(log) + 1)
       ELSE recv[s]]

----------------------------------------------------------------------------
(* Clock *)

Tick ==
  /\ now < MaxClock
  /\ now' = now + 1
  /\ UNCHANGED <<booted, archive, store, events, pc, delegateIds, userVote, calls,
                 thrown, returned, clients, delivered, engine>>

----------------------------------------------------------------------------
(* Legacy archive import at start-up *)

(* a || b on numbers and nullable strings: 0 and null are falsy *)
OrNum(a, b) == IF a = 0 \/ a = NullInt THEN b ELSE a
OrStr(a, b) == IF Truthy(a) THEN a ELSE b

LegacyDebateRow(item) ==
  [status |-> "closed",
   verdict |-> OrStr(item.consensus.verdict, "Intelligent"),
   intelligentVotes |-> OrNum(item.consensus.intelligentVotes, 0),
   idioticVotes |-> OrNum(item.consensus.idioticVotes, 0),
   totalVotes |-> OrNum(item.consensus.totalVotes, 0),
   intelligentPct |-> OrNum(item.consensus.intelligentPct, 50),
   idioticPct |-> OrNum(item.consensus.idioticPct, 50),
   createdAt |-> now,
   updatedAt |-> now]

RECURSIVE ImportDebates(_, _)
ImportDebates(items, n) ==
  IF n = 0 THEN <<>>
  ELSE ImportDebates(items, n - 1) @@ (items[n].id :> LegacyDebateRow(items[n]))

RECURSIVE ImportResolutions(_, _)
ImportResolutions(items, n) ==
  IF n = 0 THEN <<>>
  ELSE ImportResolutions(items, n - 1) @@ (items[n].id :> [status |-> "closed"])

bootstrapFromLegacyArchive ==
  /\ ~booted
  /\ booted' = TRUE
  /\ IF Cardinality(DOMAIN debates) > 0
       THEN UNCHANGED <<resolutions, debates>>
       ELSE /\ debates' = ImportDebates(archive, Len(archive))
            /\ resolutions' = ImportResolutions(archive, Len(archive))
  /\ UNCHANGED <<now, archive, picks, delegateVotes, messages, humanVotes,
                 humanArguments, snapshots, events, pc, delegateIds, userVote, calls, thrown, returned, clients,
                 delivered, engine>>

----------------------------------------------------------------------------
(* POST /v1/resolutions/submit, up to the await of the delegate calls *)

NewDebateRow(timestamp) ==
  [status |-> "active",
   verdict |-> NULL,
   intelligentVotes |-> 0,
   idioticVotes |-> 0,
   totalVotes |-> 0,
   intelligentPct |-> 50,
   idioticPct |-> 50,
   createdAt |-> timestamp,
   updatedAt |-> timestamp]

SystemMessage(debateId, kind, timestamp) ==
  [debateId |-> debateId, actorType |-> "system", actorId |-> NULL,
   stance |-> "neutral", kind |-> kind, confidence |-> NullInt,
   createdAt |-> timestamp]

(* a row of the resolutions table *)
resolutionRow(author, title, body, status) ==
  [author |-> author, title |-> title, body |-> body, status |-> status]

(* UPDATE resolutions SET status = ? WHERE id = ? *)
setStatus(table, id, status) == [table EXCEPT ![id].status = status]

(* String(req.body?.title || "") and body, before trimming *)
Texts == {<<>>, <<" ">>, <<"T">>}

(* !title || !body, on the trimmed texts *)
InvalidInput(title, body) == Trim(title) = <<>> \/ Trim(body) = <<>>

map_Sequential(ids) == [i \in 1..Min(1, Len(ids)) |-> Pending]

(* delegateIds.map((modelId) => runDelegateDebate(modelId, title, body)):  *)
(* every call runs to its first await, one after the other in the same     *)
(* step, and leaves a pending promise                                      *)
map(ids) == [i \in 1..Len(ids) |-> Pending]

Submit(d) ==
  /\ booted
  /\ pc[d] = "idle"
  /\ \E title \in Texts, body \in Texts :
       /\ ~InvalidInput(title, body)
       /\ resolutions' =
            setStatus(resolutions @@
                        (d :> resolutionRow(DefaultUser, Trim(title), Trim(body),
                                            "submitted")),
                      d, "debating")
  /\ \E requested \in Requests, uv \in UserVotes :
       LET ids == pickDelegates(requested, FallbackLimit)
       IN /\ delegateIds' = [delegateIds EXCEPT ![d] = ids]
          /\ userVote' = [userVote EXCEPT ![d] = uv]
          /\ calls' = [calls EXCEPT ![d] = map(ids)]
          /\ picks' = picks \cup {<<d, ids[i]>> : i \in 1..Len(ids)}
  /\ debates' = debates @@ (d :> NewDebateRow(now))
  /\ messages' = Append(messages, SystemMessage(d, "opened", now))
  /\ LET started == Event(d, "debate_started", NoConsensus, 0, now)
     IN /\ events' = Append(events, started)
        /\ delivered' = emitDebateEvent(delivered, listeners, events, started)
  /\ pc' = [pc EXCEPT ![d] = "awaiting"]
  /\ UNCHANGED <<now, booted, archive, delegateVotes, humanVotes, humanArguments,
                 snapshots, thrown, returned, clients, engine>>

----------------------------------------------------------------------------
(* One delegate call settles: runDelegateDebate returns or throws *)

inFlight_Retry(call) == call.status # "fulfilled"

(* a promise settles once: runDelegateDebate makes one request and         *)
(* returns or throws, and nothing calls it again                           *)
inFlight(call) == call.status = "pending"

Settle(d, i) ==
  /\ pc[d] = "awaiting"
  /\ i \in 1..Len(calls[d])
  /\ inFlight(calls[d][i])
  /\ \E outcome \in {Fulfilled(v) : v \in FulfilledValues}
                      \cup {Rejected(msg) : msg \in RejectReasons} :
       calls' = [calls EXCEPT ![d][i] = outcome]
  /\ UNCHANGED <<now, booted, archive, store, events, pc, delegateIds, userVote,
                 thrown, returned, clients, delivered, engine>>

----------------------------------------------------------------------------
(* The rest of the submit handler, from the resumption of                  *)
(* "await Promise.allSettled(...)" to the response                          *)

allSettled_Race(cs) ==
  IF \E i \in 1..Len(cs) : cs[i].status # "pending" THEN "fulfilled" ELSE "pending"

allSettled_FailFast(cs) ==
  IF \E i \in 1..Len(cs) : cs[i].status = "rejected" THEN "rejected"
  ELSE IF \A i \in 1..Len(cs) : cs[i].status = "fulfilled" THEN "fulfilled"
  ELSE "pending"

(* State of the promise of Promise.allSettled over the calls *)
allSettled(cs) ==
  IF \A i \in 1..Len(cs) : cs[i].status # "pending" THEN "fulfilled" ELSE "pending"

(* reason instanceof Error ? reason.message : String(reason) *)
errorMessage(reason) == IF reason.isError THEN reason.message ELSE reason.text

delegateRow_DefaultVote(result, modelId, createdAt) ==
  [modelId |-> modelId,
   vote |-> IF result.status = "fulfilled" THEN result.vote ELSE "Intelligent",
   confidence |-> result.confidence, argument |-> result.argument,
   rebuttal |-> result.rebuttal,
   error |-> IF result.status = "fulfilled" THEN NULL ELSE errorMessage(result.reason),
   createdAt |-> createdAt]

delegateRow(result, modelId, createdAt) ==
  IF result.status = "fulfilled"
    THEN [modelId |-> modelId, vote |-> result.vote, confidence |-> result.confidence,
          argument |-> result.argument, rebuttal |-> result.rebuttal,
          error |-> NULL, createdAt |-> createdAt]
    ELSE [modelId |-> modelId, vote |-> NULL, confidence |-> NullInt,
          argument |-> NULL, rebuttal |-> NULL,
          error |-> errorMessage(result.reason), createdAt |-> createdAt]

voteRow_FirstDebate(debateId, row) ==
  [debateId |-> "d1", modelId |-> row.modelId, vote |-> row.vote,
   confidence |-> row.confidence, argument |-> row.argument,
   rebuttal |-> row.rebuttal, error |-> row.error, createdAt |-> row.createdAt]

voteRow_NoError(debateId, row) ==
  [debateId |-> debateId, modelId |-> row.modelId, vote |-> row.vote,
   confidence |-> row.confidence, argument |-> row.argument,
   rebuttal |-> row.rebuttal, error |-> NULL, createdAt |-> row.createdAt]

voteRow(debateId, row) ==
  [debateId |-> debateId, modelId |-> row.modelId, vote |-> row.vote,
   confidence |-> row.confidence, argument |-> row.argument,
   rebuttal |-> row.rebuttal, error |-> row.error, createdAt |-> row.createdAt]

delegateMessage(debateId, result, row) ==
  IF result.status = "fulfilled"
    THEN [debateId |-> debateId, actorType |-> "delegate", actorId |-> row.modelId,
          stance |-> IF row.vote = "Idiotic" THEN "idiotic" ELSE "intelligent",
          kind |-> "argument", confidence |-> row.confidence,
          createdAt |-> row.createdAt]
    ELSE [debateId |-> debateId, actorType |-> "delegate", actorId |-> row.modelId,
          stance |-> "neutral", kind |-> "failed", confidence |-> NullInt,
          createdAt |-> row.createdAt]

transaction_NoRollback(table, written, threw) == table \o written

(* db.transaction(fn)(): the rows written by fn are committed when fn      *)
(* returns and rolled back when it throws                                   *)
transaction(table, written, threw) == IF threw THEN table ELSE table \o written

closedRow_KeepsActive(row, consensus, finalizedAt) ==
  [row EXCEPT !.verdict = consensus.verdict,
              !.intelligentVotes = consensus.intelligentVotes,
              !.idioticVotes = consensus.idioticVotes,
              !.totalVotes = consensus.totalVotes,
              !.intelligentPct = consensus.intelligentPct,
              !.idioticPct = consensus.idioticPct,
              !.updatedAt = finalizedAt]

closedRow_StalePct(row, consensus, finalizedAt) ==
  [row EXCEPT !.status = "closed",
              !.verdict = consensus.verdict,
              !.intelligentVotes = consensus.intelligentVotes,
              !.idioticVotes = consensus.idioticVotes,
              !.totalVotes = consensus.totalVotes,
              !.updatedAt = finalizedAt]

closedRow(row, consensus, finalizedAt) ==
  [row EXCEPT !.status = "closed",
              !.verdict = consensus.verdict,
              !.intelligentVotes = consensus.intelligentVotes,
              !.idioticVotes = consensus.idioticVotes,
              !.totalVotes = consensus.totalVotes,
              !.intelligentPct = consensus.intelligentPct,
              !.idioticPct = consensus.idioticPct,
              !.updatedAt = finalizedAt]

humanVote(debateId, userId, vote, createdAt) ==
  [debateId |-> debateId, userId |-> userId, vote |-> vote, createdAt |-> createdAt]

Upsert_Insert(table, key, row) == table \cup {row}

Upsert_KeepFirst(table, key, row) ==
  IF \E r \in table : <<r.debateId, r.userId>> = key THEN table ELSE table \cup {row}

(* INSERT ... ON CONFLICT(debate_id, user_id) DO UPDATE SET vote, created_at *)
Upsert(table, key, row) ==
  {r \in table : <<r.debateId, r.userId>> # key} \cup {row}

(* Where a store write of this step fails, if one does *)
Faults(n) ==
  {NoFault}
    \cup {[at |-> a, index |-> 0] : a \in {"close", "resolution", "message"}}
    \cup {[at |-> "tx", index |-> j] : j \in 1..n}

Rank(at) ==
  CASE at = "tx" -> 1
    [] at = "close" -> 2
    [] at = "resolution" -> 3
    [] at = "message" -> 4
    [] OTHER -> 5

(* The clock may tick once while the step runs: the first k reads of       *)
(* nowIso() in the transaction see now, the later ones now + 1             *)
TickPoints(n) == IF now < MaxClock THEN 0..n ELSE {n}
Stamp(i, k) == IF i <= k THEN now ELSE now + 1

Join(d) ==
  /\ pc[d] = "awaiting"
  /\ allSettled(calls[d]) # "pending"
  /\ IF allSettled(calls[d]) = "rejected"
       THEN /\ pc' = [pc EXCEPT ![d] = "failed"]
            /\ thrown' = [thrown EXCEPT ![d] = [at |-> "delegate", index |-> 0]]
            /\ UNCHANGED <<now, store, events, delivered, returned>>
       ELSE \E fault \in Faults(Len(calls[d])), k \in TickPoints(Len(calls[d])) :
        \E delegateRows \in
             {[i \in 1..Len(calls[d]) |->
                 delegateRow(calls[d][i], delegateIds[d][i], Stamp(i, k))]} :
        \E consensus \in {computeConsensus(delegateRows)} :
         LET n == Len(calls[d])
             settled == calls[d]
             upto == IF fault.at = "tx" THEN fault.index - 1 ELSE n
             writtenVotes == [i \in 1..upto |-> voteRow(d, delegateRows[i])]
             writtenMessages ==
               [i \in 1..upto |-> delegateMessage(d, settled[i], delegateRows[i])]
             finalizedAt == Stamp(n, k)
             done(stage) == Rank(fault.at) > Rank(stage)
             dbVotes == transaction(delegateVotes, writtenVotes, fault.at = "tx")
             dbTxMessages == transaction(messages, writtenMessages, fault.at = "tx")
             dbMessages ==
               IF done("message")
                 THEN Append(dbTxMessages, SystemMessage(d, "verdict", finalizedAt))
                 ELSE dbTxMessages
             dbDebates ==
               IF done("close")
                 THEN [debates EXCEPT ![d] = closedRow(@, consensus, finalizedAt)]
                 ELSE debates
         IN /\ now' = finalizedAt
            /\ delegateVotes' = dbVotes
            /\ messages' = dbMessages
            /\ debates' = dbDebates
            /\ resolutions' =
                 IF done("resolution")
                   THEN setStatus(resolutions, d, "closed")
                   ELSE resolutions
            /\ IF fault.at = "none"
                 THEN /\ LET completed ==
                               Event(d, "debate_completed", consensus,
                                     Len(delegateIds[d]), finalizedAt)
                         IN /\ events' = Append(events, completed)
                            /\ delivered' =
                                 emitDebateEvent(delivered, listeners, events, completed)
                      /\ returned' =
                           [returned EXCEPT ![d] = returnedView(dbDebates, dbVotes, d)]
                      /\ humanVotes' =
                           IF userVote[d] # <<>>
                             THEN Upsert(humanVotes, <<d, DefaultUser>>,
                                         humanVote(d, DefaultUser,
                                                   normalizeVote(userVote[d]),
                                                   finalizedAt))
                             ELSE humanVotes
                      /\ snapshots' = snapshots + 3
                      /\ pc' = [pc EXCEPT ![d] = "done"]
                      /\ UNCHANGED thrown
                 ELSE /\ pc' = [pc EXCEPT ![d] = "failed"]
                      /\ thrown' = [thrown EXCEPT ![d] = fault]
                      /\ UNCHANGED <<events, delivered, returned, humanVotes,
                                     snapshots>>
            /\ UNCHANGED picks
  /\ UNCHANGED <<humanArguments, booted, archive, delegateIds, userVote, calls, clients, engine>>

----------------------------------------------------------------------------
(* Requests of users: votes, arguments, streams, rejected submissions *)

(* the id of the user of a request: the x-user-id header, or the default   *)
(* user without one                                                        *)
getCurrentUser(header) == IF header # "" THEN header ELSE DefaultUser

(* the users table after getCurrentUser: a user that the header names and  *)
(* the table lacks is inserted                                             *)
ensureUser(dbUsers, id) == dbUsers \cup {id}

(* the debate ids a request can name: the stored ones and unknown ones *)
Params == DOMAIN debates \cup AllDebates

(* POST /v1/resolutions/submit answering 400 *)
SubmitInvalid ==
  /\ booted
  /\ served < MaxServed
  /\ \E header \in Headers, title \in Texts, body \in Texts :
       /\ InvalidInput(title, body)
       /\ users' = ensureUser(users, getCurrentUser(header))
  /\ served' = served + 1
  /\ last' = "submit 400"
  /\ UNCHANGED <<now, booted, archive, store, events, pc, delegateIds, userVote, calls,
                 thrown, returned, listeners, streams, delivered, engine>>

(* titles and bodies of drafts, before trimming *)
DraftTexts == {<<>>, <<"T">>, <<"U">>}

(* randomUUID(): an id that no row has *)
FreshDraft == CHOOSE id \in Drafts \ DOMAIN resolutions : TRUE

(* POST /v1/drafts *)
CreateDraft ==
  /\ booted
  /\ \E header \in Headers, title \in DraftTexts, body \in DraftTexts :
       LET user == getCurrentUser(header)
       IN /\ users' = ensureUser(users, user)
          /\ IF InvalidInput(title, body)
               THEN /\ last' = "drafts 400"
                    /\ UNCHANGED resolutions
               ELSE /\ Drafts \ DOMAIN resolutions # {}
                    /\ last' = "drafts 201"
                    /\ resolutions' =
                         resolutions @@
                           (FreshDraft :>
                              resolutionRow(user, Trim(title), Trim(body), "draft"))
  /\ UNCHANGED <<now, booted, archive, picks, debates, delegateVotes, messages,
                 humanVotes, humanArguments, snapshots, events, pc, delegateIds,
                 userVote, calls, thrown, returned, listeners, streams, delivered,
                 served, engine>>

updateDraft_AnyStatus(table, draftId, title, body) ==
  [table EXCEPT ![draftId].title = title, ![draftId].body = body]

(* UPDATE resolutions SET title = ?, body = ? WHERE id = ? AND status =     *)
(* 'draft'                                                                 *)
updateDraft(table, draftId, title, body) ==
  IF table[draftId].status = "draft"
    THEN [table EXCEPT ![draftId].title = title, ![draftId].body = body]
    ELSE table

(* PUT /v1/drafts/:id *)
UpdateDraft ==
  /\ booted
  /\ \E header \in Headers, draftId \in DOMAIN resolutions \cup {Unknown},
        title \in DraftTexts, body \in DraftTexts :
       LET user == getCurrentUser(header)
       IN /\ users' = ensureUser(users, user)
          /\ IF InvalidInput(title, body)
               THEN last' = "draft 400" /\ UNCHANGED resolutions
               ELSE IF draftId \notin DOMAIN resolutions
                 THEN last' = "draft 404" /\ UNCHANGED resolutions
                 ELSE IF resolutions[draftId].author # user
                   THEN last' = "draft 403" /\ UNCHANGED resolutions
                   ELSE /\ last' = "draft 200"
                        /\ resolutions' =
                             updateDraft(resolutions, draftId, Trim(title), Trim(body))
  /\ UNCHANGED <<now, booted, archive, picks, debates, delegateVotes, messages,
                 humanVotes, humanArguments, snapshots, events, pc, delegateIds,
                 userVote, calls, thrown, returned, listeners, streams, delivered,
                 served, engine>>

(* const aligned = vote === debate.verdict, on the row the handler read *)
aligned(vote, debate) == vote = debate.verdict

(* CASE WHEN hv.vote = d.verdict THEN 1 ELSE 0 END of getUserStats, for a  *)
(* row of human_votes joined with its debate                               *)
alignedVote(row, dbDebates) == row.vote = dbDebates[row.debateId].verdict

(* POST /v1/debates/:id/human-vote *)
HumanVote ==
  /\ booted
  /\ served < MaxServed
  /\ served' = served + 1
  /\ \E header \in Headers, debateId \in Params, text \in UserVotes :
       LET user == getCurrentUser(header)
           vote == normalizeVote(text)
           voted == HumanEvent(debateId, "human_vote", user, vote, now)
                      @@ [aligned |-> aligned(vote, debates[debateId])]
       IN /\ users' = ensureUser(users, user)
          /\ IF debateId \notin DOMAIN debates
               THEN /\ last' = "human-vote 404"
                    /\ UNCHANGED <<humanVotes, events, delivered, snapshots>>
               ELSE /\ last' = "human-vote 201"
                    /\ humanVotes' = Upsert(humanVotes, <<debateId, user>>,
                                            humanVote(debateId, user, vote, now))
                    /\ events' = Append(events, voted)
                    /\ delivered' = emitDebateEvent(delivered, listeners, events, voted)
                    /\ snapshots' = snapshots + 3
  /\ UNCHANGED <<now, booted, archive, resolutions, picks, debates, delegateVotes,
                 messages, humanArguments, pc, delegateIds, userVote, calls, thrown,
                 returned, listeners, streams, engine>>

(* req.body.stance *)
Stances == {"idiotic", "maybe"}

stanceOf(stanceInput) ==
  IF stanceInput \in {"intelligent", "idiotic", "neutral"} THEN stanceInput ELSE "neutral"

humanMessage_AsDelegate(debateId, userId, stance, createdAt) ==
  [debateId |-> debateId, actorType |-> "delegate", actorId |-> userId,
   stance |-> stance, kind |-> "argument", confidence |-> NullInt,
   createdAt |-> createdAt]

humanMessage(debateId, userId, stance, createdAt) ==
  [debateId |-> debateId, actorType |-> "human", actorId |-> userId,
   stance |-> stance, kind |-> "argument", confidence |-> NullInt,
   createdAt |-> createdAt]

exists_Always(dbDebates, debateId) == TRUE

(* SELECT id FROM debates WHERE id = ? returns a row *)
exists(dbDebates, debateId) == debateId \in DOMAIN dbDebates

(* the status the human-argument handler answers with *)
argumentStatus(dbDebates, debateId, content) ==
  IF ~exists(dbDebates, debateId) THEN "human-argument 404"
  ELSE IF content = <<>> THEN "human-argument 400"
  ELSE "human-argument 201"

accepted_AnyContent(dbDebates, debateId, content) == exists(dbDebates, debateId)

(* the handler reaches its inserts: neither of its two early returns was   *)
(* taken                                                                   *)
accepted(dbDebates, debateId, content) ==
  exists(dbDebates, debateId) /\ content # <<>>

(* POST /v1/debates/:id/human-argument *)
HumanArgument ==
  /\ booted
  /\ served < MaxServed
  /\ served' = served + 1
  /\ \E header \in Headers, debateId \in Params, text \in Texts,
        stanceInput \in Stances :
       LET user == getCurrentUser(header)
           content == Trim(text)
           stance == stanceOf(stanceInput)
           argued == HumanEvent(debateId, "human_argument", user, NULL, now)
       IN /\ users' = ensureUser(users, user)
          /\ last' = argumentStatus(debates, debateId, content)
          /\ IF ~accepted(debates, debateId, content)
               THEN UNCHANGED <<humanArguments, messages, events, delivered>>
               ELSE /\ humanArguments' =
                         Append(humanArguments,
                                [debateId |-> debateId, userId |-> user,
                                 stance |-> stance, createdAt |-> now])
                    /\ messages' = Append(messages,
                                          humanMessage(debateId, user, stance, now))
                    /\ events' = Append(events, argued)
                    /\ delivered' = emitDebateEvent(delivered, listeners, events, argued)
  /\ UNCHANGED <<now, booted, archive, resolutions, picks, debates, delegateVotes,
                 humanVotes, snapshots, pc, delegateIds, userVote, calls, thrown,
                 returned, listeners, streams, engine>>

replayed_Backlog(log, debateId) ==
  SelectSeq([i \in 1..Len(log) |-> i], LAMBDA i : log[i].debateId = debateId)

(* the events of the log that a new stream is sent when it opens: none     *)
(* ("connected" and "ping" are frames of the stream, not events)           *)
replayed(log, debateId) == <<>>

(* GET /v1/debates/:id *)
GetDebate ==
  /\ booted
  /\ \E debateId \in Params :
       last' = IF debateId \in DOMAIN debates
                 THEN IF mapDebateRow(debates[debateId]).status = "active"
                        THEN "debate 200 active"
                        ELSE "debate 200 closed"
                 ELSE "debate 404"
  /\ UNCHANGED <<now, booted, archive, store, events, pc, delegateIds, userVote, calls,
                 thrown, returned, users, listeners, streams, delivered, served, engine>>

(* GET /v1/debates/:id/stream *)
Subscribe(s) ==
  /\ booted
  /\ streams[s] = NoStream
  /\ \E debateId \in Params :
       IF ~exists(debates, debateId)
         THEN UNCHANGED <<listeners, streams, delivered>>
         ELSE /\ listeners' = listeners \cup {Listener(s, debateId)}
              /\ streams' = [streams EXCEPT
                               ![s] = [debateId |-> debateId, since |-> Len(events),
                                       keepAlive |-> TRUE, pings |-> 0]]
              /\ delivered' = [delivered EXCEPT ![s] = replayed(events, debateId)]
  /\ UNCHANGED <<now, booted, archive, store, events, pc, delegateIds, userVote, calls,
                 thrown, returned, users, served, last, engine>>

clearInterval_Never(stream) == [NoStream EXCEPT !.keepAlive = stream.keepAlive]

(* clearInterval(keepAlive) on the connection that closed *)
clearInterval(stream) == NoStream

(* runtime.streamBus.off(name, listener) *)
off(registered, listener) == registered \ {listener}

(* the "close" event of a stream's request *)
Unsubscribe(s) ==
  /\ streams[s].debateId # NULL
  /\ listeners' = off(listeners, Listener(s, streams[s].debateId))
  /\ streams' = [streams EXCEPT ![s] = clearInterval(streams[s])]
  /\ delivered' = [delivered EXCEPT ![s] = <<>>]
  /\ UNCHANGED <<now, booted, archive, store, events, pc, delegateIds, userVote, calls,
                 thrown, returned, users, served, last, engine>>

----------------------------------------------------------------------------
(* Delegate catalog sync *)

(* the fallback array of syncDelegates, in the order of its ranks 1 to 4 *)
BuiltIn ==
  <<"openai/gpt-4o-mini", "anthropic/claude-3.5-sonnet", "google/gemini-2.0-flash",
    "meta-llama/llama-3.1-70b-instruct">>

(* the ids of the models in the order of their display names: "Claude      *)
(* Sonnet", "GPT-4o Mini", "Gemini Flash", "Llama 3.1 70B", then the names *)
(* of the ranked models                                                    *)
NameOrder ==
  <<BuiltIn[2], BuiltIn[1], BuiltIn[3], BuiltIn[4]>> \o Universe

NamePosition(id) == CHOOSE i \in 1..Len(NameOrder) : NameOrder[i] = id

(* ORDER BY rank_position ASC, display_name ASC *)
RECURSIVE Ordered(_, _)
Ordered(table, ids) ==
  IF ids = {} THEN <<>>
  ELSE LET key(id) == table[id] * (Len(NameOrder) + 1) + NamePosition(id)
           first == CHOOSE id \in ids : \A other \in ids : key(id) <= key(other)
       IN <<first>> \o Ordered(table, ids \ {first})

(* getDelegates(limit) on a table: the ids of the rows it returns *)
selectDelegates(table, limit) == slice(Ordered(table, DOMAIN table), limit)

(* upsertDelegateModel for each of the rows, the rank of a row being its   *)
(* position: INSERT ... ON CONFLICT(id) DO UPDATE SET rank_position, ...   *)
upsertDelegateModels(table, rows) ==
  [id \in DOMAIN table \cup Range(rows) |->
     IF id \in Range(rows) THEN CHOOSE i \in 1..Len(rows) : rows[i] = id
     ELSE table[id]]

(* the limit argument: 20 from the middleware and start(), 1 to 50 from    *)
(* the query of GET /v1/delegates/eligible and GET /api/agents            *)
SyncLimits == {1, 20}

(* the slugs extractRankedModelRows can find in the rankings page, in      *)
(* the order of the page: none, or distinct ones, at most limit of them    *)
RankedRows(limit) ==
  {slice(rows, limit) : rows \in {<<>>, <<"m1", "m2">>, <<"m3", "m1">>}}

(* what fetchModelCatalog() and fetch(OPENROUTER_RANKINGS_URL) come to:    *)
(* each succeeds or fails, the rankings by a rejection or by a response    *)
(* that is not ok                                                          *)
Fetches(limit) ==
  {[catalog |-> c, rankings |-> "ok", rows |-> rows] :
     c \in {"ok", "failed"}, rows \in RankedRows(limit)}
    \cup {[catalog |-> c, rankings |-> r, rows |-> <<>>] :
            c \in {"ok", "failed"}, r \in {"rejected", "HTTP 500"}}

(* the try block runs to its end: no fetch failed and rows were parsed *)
Synced(fetched) ==
  fetched.catalog = "ok" /\ fetched.rankings = "ok" /\ fetched.rows # <<>>

(* how long a synced catalog, and a failure, keep syncDelegates from       *)
(* fetching again: ten minutes and one minute in the code, the span of     *)
(* the clock and one tick here                                             *)
DELEGATE_SYNC_TTL_MS == MaxClock
RetryTtl == MaxClock - MaxClock + 1

fallback_None(table, limit) == table

(* the catch block of syncDelegates: the table as it is when it has rows   *)
(* to return, and with the built-in rows otherwise                         *)
fallback(table, limit) ==
  IF selectDelegates(table, limit) # <<>> THEN table
  ELSE upsertDelegateModels(table, BuiltIn)

(* syncDelegates(limit) up to its first await, or to its return when the   *)
(* cached catalog is fresh                                                 *)
SyncStart(r) ==
  /\ syncs[r].pc = "idle"
  /\ \E limit \in SyncLimits :
       IF expiresAt > now /\ selectDelegates(delegateModels, limit) # <<>>
         THEN syncs' = [syncs EXCEPT ![r] =
                          [pc |-> "returned", limit |-> limit, since |-> now,
                           fetched |-> NoFetch,
                           value |-> selectDelegates(delegateModels, limit)]]
         ELSE syncs' = [syncs EXCEPT ![r] =
                          [pc |-> "fetching", limit |-> limit, since |-> now,
                           fetched |-> NoFetch, value |-> <<>>]]
  /\ UNCHANGED <<now, booted, archive, store, events, pc, delegateIds, userVote, calls,
                 thrown, returned, clients, delivered, results, computed, voteText,
                 normalizedVote, given, got, delegateModels, expiresAt, legacy>>

(* the rest of syncDelegates, from the settling of its fetches *)
SyncSettle(r) ==
  /\ syncs[r].pc = "fetching"
  /\ \E fetched \in Fetches(syncs[r].limit) :
       LET limit == syncs[r].limit
           table == IF Synced(fetched)
                      THEN upsertDelegateModels(delegateModels, fetched.rows)
                      ELSE fallback(delegateModels, limit)
       IN /\ delegateModels' = table
          /\ expiresAt' = syncs[r].since
                            + (IF Synced(fetched) THEN DELEGATE_SYNC_TTL_MS ELSE RetryTtl)
          /\ syncs' = [syncs EXCEPT ![r].pc = "returned", ![r].fetched = fetched,
                                    ![r].value = selectDelegates(table, limit)]
  /\ UNCHANGED <<now, booted, archive, store, events, pc, delegateIds, userVote, calls,
                 thrown, returned, clients, delivered, results, computed, voteText,
                 normalizedVote, given, got, legacy>>

(* the request of the call is answered *)
SyncDone(r) ==
  /\ syncs[r].pc = "returned"
  /\ syncs' = [syncs EXCEPT ![r] = NoSync]
  /\ UNCHANGED <<now, booted, archive, store, events, pc, delegateIds, userVote, calls,
                 thrown, returned, clients, delivered, results, computed, voteText,
                 normalizedVote, given, got, delegateModels, expiresAt, legacy>>

SyncNext ==
  \/ Tick
  \/ \E r \in SyncCallers : SyncStart(r)
  \/ \E r \in SyncCallers : SyncSettle(r)
  \/ \E r \in SyncCallers : SyncDone(r)

----------------------------------------------------------------------------
(* The JSON archive of the legacy server *)

(* the record that the handler of request r appends *)
recordOf(r) == LegacyIds[r]

(* the number of calls of fs.writeFile so far *)
writeCount == Cardinality({r \in SyncCallers : appends[r].order > 0})

(* writeArchive up to its await: runtimeState.archiveInMemory = [...items] *)
writeArchive(memory, items) == items

(* appendArchive(record) up to its first await that waits for the file     *)
(* system.  With the archive in memory readArchive returns a copy of it    *)
(* at once, the record is pushed and writeArchive sets the memory and      *)
(* starts to write the file; without, readArchive waits for fs.readFile.   *)
AppendStart(r) ==
  /\ appends[r].pc = "idle"
  /\ IF archiveInMemory # NULL
       THEN LET items == Append(archiveInMemory, recordOf(r))
            IN /\ archiveInMemory' = writeArchive(archiveInMemory, items)
               /\ appends' = [appends EXCEPT ![r] = [pc |-> "writing", items |-> items,
                                                     order |-> writeCount + 1]]
       ELSE /\ appends' = [appends EXCEPT ![r].pc = "reading"]
            /\ UNCHANGED archiveInMemory
  /\ UNCHANGED <<now, booted, archive, store, events, pc, delegateIds, userVote, calls,
                 thrown, returned, clients, delivered, results, computed, voteText,
                 normalizedVote, given, got, catalogSync>>

(* fs.readFile settles: readArchive parses the content, keeps a copy in    *)
(* memory and returns it; a content read while another call writes the     *)
(* file may be cut short, JSON.parse then throws and readArchive returns   *)
(* the copy in memory, or [].  The record is pushed and writeArchive sets  *)
(* the memory and starts to write the file.                                *)
ReadSettle(r) ==
  /\ appends[r].pc = "reading"
  /\ \E parsed \in {TRUE} \cup {FALSE : q \in {q \in SyncCallers : appends[q].pc = "writing"}} :
       LET read == IF parsed THEN archive
                   ELSE IF archiveInMemory # NULL THEN archiveInMemory ELSE <<>>
           items == Append(read, recordOf(r))
       IN /\ archiveInMemory' = writeArchive(IF parsed THEN read ELSE archiveInMemory,
                                             items)
          /\ appends' = [appends EXCEPT ![r] = [pc |-> "writing", items |-> items,
                                                order |-> writeCount + 1]]
  /\ UNCHANGED <<now, booted, archive, store, events, pc, delegateIds, userVote, calls,
                 thrown, returned, clients, delivered, results, computed, voteText,
                 normalizedVote, given, got, catalogSync>>

(* fs.writeFile settles: the file holds what this call wrote, and          *)
(* appendArchive returns                                                   *)
WriteSettle(r) ==
  /\ appends[r].pc = "writing"
  /\ archive' = appends[r].items
  /\ appends' = [appends EXCEPT ![r].pc = "done"]
  /\ UNCHANGED <<now, booted, store, events, pc, delegateIds, userVote, calls,
                 thrown, returned, clients, delivered, results, computed, voteText,
                 normalizedVote, given, got, catalogSync, archiveInMemory>>

ArchiveNext ==
  \/ Tick
  \/ \E r \in SyncCallers : AppendStart(r)
  \/ \E r \in SyncCallers : ReadSettle(r)
  \/ \E r \in SyncCallers : WriteSettle(r)

----------------------------------------------------------------------------
(* Specifications *)

Init ==
  /\ InitOrchestrator
  /\ archive = <<>>
  /\ results = <<>>
  /\ voteText = <<>>
  /\ given = <<>>

Next ==
  \/ Tick
  \/ bootstrapFromLegacyArchive
  \/ \E d \in Debates : Submit(d)
  \/ \E d \in Debates : \E i \in 1..MaxDelegates : Settle(d, i)
  \/ \E d \in Debates : Join(d)

Spec == Init /\ [][Next]_vars

(* The event loop resumes a handler whose awaited promise has settled, and *)
(* every outstanding delegate call settles.                                *)
Advance(d) == Join(d) \/ \E i \in 1..MaxDelegates : Settle(d, i)

Fairness == \A d \in Debates : WF_vars(Advance(d))

FairSpec == Spec /\ Fairness

(* the keep-alive timer of a stream fires: send("ping", ...) writes a frame *)
(* to the timer's connection                                               *)
Ping(s) ==
  /\ streams[s].keepAlive
  /\ streams[s].pings < MaxPings
  /\ streams' = [streams EXCEPT ![s].pings = @ + 1]
  /\ UNCHANGED <<now, booted, archive, store, events, pc, delegateIds, userVote, calls,
                 thrown, returned, users, listeners, delivered, served, last, engine>>

(* The server with the requests of its users *)
AssemblyNext ==
  \/ Next
  \/ SubmitInvalid
  \/ HumanVote
  \/ HumanArgument
  \/ \E s \in Sessions : Subscribe(s)
  \/ \E s \in Sessions : Unsubscribe(s)

AssemblySpec == Init /\ [][AssemblyNext]_vars

(* The orchestrator with the requests that write drafts *)
LifecycleNext ==
  \/ bootstrapFromLegacyArchive
  \/ \E d \in Debates : Submit(d)
  \/ \E d \in Debates : \E i \in 1..MaxDelegates : Settle(d, i)
  \/ \E d \in Debates : Join(d)
  \/ CreateDraft
  \/ UpdateDraft

(* the rows of resolutions hold no time that the lifecycle depends on: the *)
(* clock stands still                                                      *)
LifecycleInit ==
  /\ now = MaxClock
  /\ InitStore
  /\ archive = <<>>
  /\ results = <<>>
  /\ voteText = <<>>
  /\ given = <<>>

LifecycleSpec == LifecycleInit /\ [][LifecycleNext]_vars

(* syncDelegates alone, on a store without a catalog *)
SyncSpec == Init /\ [][SyncNext]_vars

(* The server without a credential.  runDelegateDebate returns the record  *)
(* of mockDelegateDebate before any await, so every promise the submit     *)
(* handler awaits is settled when it is awaited: the handler resumes from  *)
(* the microtask queue, which Node empties before it starts the callback   *)
(* of another request.                                                     *)
Resumable_Later == FALSE

(* a handler waits on promises that are all settled already *)
Resumable == \E d \in Debates : pc[d] = "awaiting"

(* a call of runDelegateDebate without a credential has returned *)
SettleOffline(d, i) == Settle(d, i) /\ calls'[d][i].status = "fulfilled"

OfflineNext ==
  \/ Tick
  \/ bootstrapFromLegacyArchive
  \/ ~Resumable /\ \E d \in Debates : Submit(d)
  \/ \E d \in Debates : \E i \in 1..MaxDelegates : SettleOffline(d, i)
  \/ \E d \in Debates : Join(d)
  \/ ~Resumable /\ GetDebate
  \/ ~Resumable /\ HumanVote
  \/ ~Resumable /\ HumanArgument
  \/ ~Resumable /\ \E s \in Sessions : Subscribe(s)
  \/ \E s \in Sessions : Unsubscribe(s)

OfflineSpec == Init /\ [][OfflineNext]_vars

(* The legacy server: POST /api/debate handlers that reach appendArchive,  *)
(* on an archive file that is empty or holds the record of an earlier run  *)
ArchiveInit ==
  /\ InitOrchestrator
  /\ archive \in {<<>>, <<"L0">>}
  /\ results = <<>>
  /\ voteText = <<>>
  /\ given = <<>>

ArchiveSpec == ArchiveInit /\ [][ArchiveNext]_vars

(* Two submit handlers in flight at once, each with its own resolution     *)
(* and debate                                                              *)
ConcurrentNext ==
  \/ bootstrapFromLegacyArchive
  \/ \E d \in AllDebates : Submit(d)
  \/ \E d \in AllDebates : \E i \in 1..MaxDelegates : Settle(d, i)
  \/ \E d \in AllDebates : Join(d)

(* the clock stands still while the two run: the timestamps of the rows   *)
(* are all equal                                                           *)
ConcurrentInit ==
  /\ now = MaxClock
  /\ InitStore
  /\ archive = <<>>
  /\ results = <<>>
  /\ voteText = <<>>
  /\ given = <<>>

ConcurrentSpec == ConcurrentInit /\ [][ConcurrentNext]_vars

----------------------------------------------------------------------------
(* The server started on a data directory that the legacy server left *)

(* the legacy handler answers 502 and archives nothing unless one call    *)
(* succeeded                                                               *)
LegacyResultSets ==
  {<<Fulfilled(v)>> : v \in FulfilledValues}
    \cup {<<Fulfilled(v), Rejected("HTTP 500")>> : v \in FulfilledValues}

(* the delegateResults array of the legacy POST /api/debate *)
legacyResult(result, modelId) ==
  IF result.status = "fulfilled"
    THEN [modelId |-> modelId, vote |-> result.vote, confidence |-> result.confidence,
          error |-> NULL]
    ELSE [modelId |-> modelId, vote |-> NULL, confidence |-> NullInt,
          error |-> errorMessage(result.reason)]

legacyResults(settled) ==
  [i \in 1..Len(settled) |-> legacyResult(settled[i], Universe[i])]

(* what POST /api/debate of the legacy server appends to archive.json *)
LegacyRecords ==
  {[consensus |-> computeConsensusLegacy(legacyResults(rs))] : rs \in LegacyResultSets}

Archives ==
  {[k \in 1..Len(a) |-> [id |-> LegacyIds[k], consensus |-> a[k].consensus]] :
     a \in SeqsUpTo(LegacyRecords, MaxArchive)}

BootInit ==
  /\ InitOrchestrator
  /\ archive \in Archives
  /\ results = <<>>
  /\ voteText = <<>>
  /\ given = <<>>

BootSpec == BootInit /\ [][Next]_vars

(* The stream bus of that server, with the requests of users on the       *)
(* imported debates: several debates have listeners and events             *)
StreamNext ==
  \/ bootstrapFromLegacyArchive
  \/ HumanVote
  \/ HumanArgument
  \/ \E s \in Sessions : Subscribe(s)
  \/ \E s \in Sessions : Unsubscribe(s)

StreamSpec == BootInit /\ [][StreamNext]_vars

(* The stream bus with the keep-alive timers of its streams *)
KeepAliveNext ==
  \/ StreamNext
  \/ \E s \in Sessions : Ping(s)

KeepAliveSpec == BootInit /\ [][KeepAliveNext]_vars

----------------------------------------------------------------------------
(* The consensus engine alone, on every result set the orchestrator builds *)

ResultSets ==
  SeqsUpTo({Fulfilled(v) : v \in {[vote |-> w, confidence |-> c] :
                                   w \in {"Intelligent", "Idiotic"}, c \in {60, 80}}}
             \cup {Rejected(msg) : msg \in RejectReasons}, MaxRows)

EngineInit ==
  /\ InitOrchestrator
  /\ archive = <<>>
  /\ results \in ResultSets \ {<<>>}
  /\ voteText = <<>>
  /\ given = <<>>

Compute ==
  /\ computed = <<>>
  /\ LET delegateRows ==
           [i \in 1..Len(results) |-> delegateRow(results[i], Universe[i], 0)]
     IN computed' = <<computeConsensus(delegateRows),
                      computeConsensusLegacy(legacyResults(results))>>
  /\ UNCHANGED <<now, booted, archive, store, events, pc, delegateIds, userVote,
                 calls, thrown, returned, clients, delivered, results, voteText,
                 normalizedVote, given, got, catalogSync, legacy>>

EngineNext == Compute

EngineSpec == EngineInit /\ [][EngineNext]_vars

----------------------------------------------------------------------------
(* normalizeVote alone, on every short vote text *)

VoteInit ==
  /\ InitOrchestrator
  /\ archive = <<>>
  /\ results = <<>>
  /\ voteText \in VoteTexts
  /\ given = <<>>

Normalize ==
  /\ normalizedVote = <<>>
  /\ normalizedVote' = <<normalizeVote(voteText), normalizeVote(Spell(normalizeVote(voteText)))>>
  /\ UNCHANGED <<now, booted, archive, store, events, pc, delegateIds, userVote,
                 calls, thrown, returned, clients, delivered, results, computed,
                 voteText, given, got, catalogSync, legacy>>

VoteNext == Normalize

VoteSpec == VoteInit /\ [][VoteNext]_vars

----------------------------------------------------------------------------
(* Functions alone, each on its own inputs *)

InitAlone ==
  /\ InitOrchestrator
  /\ archive = <<>>
  /\ results = <<>>
  /\ voteText = <<>>

Return(value) ==
  /\ got = <<>>
  /\ got' = <<value>>
  /\ UNCHANGED <<now, booted, archive, store, events, pc, delegateIds, userVote,
                 calls, thrown, returned, clients, delivered, results, computed,
                 voteText, normalizedVote, given, catalogSync, legacy>>

(* pickDelegates(req.body?.delegates, 4) *)
PickInit == InitAlone /\ given \in PickInputs

Pick == Return(pickDelegatesFrom(given.catalog, given.delegates, FallbackLimit))

PickNext == Pick

PickSpec == PickInit /\ [][PickNext]_vars

----------------------------------------------------------------------------
(* The delegate client, with and without a credential *)

(* createHash("sha256").update(text).digest("hex").slice(0, 8) read as a   *)
(* number: a function of the characters of text alone.  Only n % 2 and     *)
(* n % 40 of the number are used; the values here are those of a           *)
(* polynomial hash below 2^24, which stand for SHA-256's below 2^32.       *)
Code(c) ==
  CASE c = "m1" -> 11
    [] c = "m2" -> 12
    [] c = "m3" -> 13
    [] c = ":" -> 3
    [] c = " " -> 4
    [] c = "T" -> 5
    [] OTHER -> 7

RECURSIVE Digest(_, _)
Digest(chars, n) ==
  IF n = 0 THEN 17 ELSE (Digest(chars, n - 1) * 31 + Code(chars[n])) % 16777216

(* `${modelId}::${title}::${resolution}` *)
seedText(modelId, title, resolution) ==
  <<modelId, ":", ":">> \o title \o <<":", ":">> \o resolution

mockVote(n) == IF n % 2 = 0 THEN "Intelligent" ELSE "Idiotic"

mockDelegateDebate_Clock(modelId, title, resolution) ==
  LET chars == seedText(modelId, title, resolution)
      n == Digest(chars, Len(chars)) + now
  IN [modelId |-> modelId, vote |-> mockVote(n), confidence |-> 55 + (n % 40),
      argument |-> IF mockVote(n) = "Intelligent" THEN "pro" ELSE "con",
      source |-> "mock"]

mockDelegateDebate(modelId, title, resolution) ==
  LET chars == seedText(modelId, title, resolution)
      n == Digest(chars, Len(chars))
  IN [modelId |-> modelId, vote |-> mockVote(n), confidence |-> 55 + (n % 40),
      argument |-> IF mockVote(n) = "Intelligent" THEN "pro" ELSE "con",
      source |-> "mock"]

(* runDelegateDebate up to its first await: without a credential it has    *)
(* returned the stand-in's record, with one it has sent its request and    *)
(* waits for the response                                                  *)
runDelegateDebate(apiKey, modelId, title, resolution) ==
  IF apiKey = ""
    THEN [fetched |-> FALSE, settled |-> TRUE,
          value |-> mockDelegateDebate(modelId, title, resolution)]
    ELSE [fetched |-> TRUE, settled |-> FALSE, value |-> NULL]

(* process.env.OPENROUTER_API_KEY: unset, empty, or a key *)
ApiKeys == {"", "sk-or-1"}

(* trimmed, non-empty titles and bodies *)
Titles == {<<"T">>, <<"T", " ", "T">>, <<"T", ":">>}

ClientInputs ==
  {[apiKey |-> k, modelId |-> m, title |-> t, resolution |-> r] :
     k \in ApiKeys, m \in {"m1", "m2", "m3"}, t \in Titles, r \in Titles}

ClientInit == InitAlone /\ given \in ClientInputs

(* one more call with the same arguments, at whatever time *)
Call ==
  /\ Len(got) < MaxCalls
  /\ got' = Append(got, runDelegateDebate(given.apiKey, given.modelId, given.title,
                                          given.resolution))
  /\ UNCHANGED <<now, booted, archive, store, events, pc, delegateIds, userVote,
                 calls, thrown, returned, clients, delivered, results, computed,
                 voteText, normalizedVote, given, catalogSync, legacy>>

ClientNext == Call \/ Tick

ClientSpec == ClientInit /\ [][ClientNext]_vars

----------------------------------------------------------------------------
(* The response parser alone *)

(* prose: up to MaxParts of these phrases, one after the other *)
Phrases ==
  {Idiotic, Intelligent, Idiotic \o <<"a", "l", "l", "y">>,
   <<"7", "2", "%">>, <<" ", "7", "2", " ", "%", " ">>, <<"1", "7", "2", "%">>,
   <<"9", "0", "%">>, <<"0", "%">>, <<"1", "1", "7", "2", "%">>,
   <<" ">>, <<"x">>, <<"?">>, <<"{">>, <<"}">>}

RECURSIVE Concat(_)
Concat(parts) == IF parts = <<>> THEN <<>> ELSE Head(parts) \o Concat(Tail(parts))

ProseTexts == {Text(Concat(parts)) : parts \in SeqsUpTo(Phrases, MaxParts)}

(* the fields a delegate may write, Undefined marking a field it left out *)
FieldChoices ==
  [vote : {Undefined, Null, Str(Idiotic), Str(<<" ", "I", "D", "I">>), Str(<<"y", "e", "s">>)},
   verdict : {Undefined, Str(Idiotic)},
   confidence : {Undefined, Null, Numb(0), Numb(-50), Numb(5), Numb(720), Numb(725),
                 Numb(1500), Str(<<"8", "0">>), Str(<<"h", "i", "g", "h">>)},
   argument : {Undefined, Str(<<"T">>), Str(<<" ">>), Str(<<>>)},
   reasoning : {Undefined, Str(<<"T">>)},
   rebuttal : {Undefined, Str(<<"T", " ">>)}]

Written(choice) ==
  [key \in {k \in DOMAIN choice : choice[k].type # "undefined"} |-> choice[key]]

(* an object, alone or in prose, well-formed or not, closed or not *)
JsonTexts ==
  {Text(before) \o <<Ch("{"), Members(ok, Written(choice))>> \o Text(after) :
     before \in {<<>>, <<"x", " ">>},
     ok \in BOOLEAN,
     choice \in FieldChoices,
     after \in {<<"}">>, <<"}", " ">>, <<>>}}

ParserInputs == {[rawText |-> raw] : raw \in ProseTexts \cup JsonTexts}

ParserInit == InitAlone /\ given \in ParserInputs

Parse == Return(parseDelegateOutput(given.rawText))

ParserNext == Parse

ParserSpec == ParserInit /\ [][ParserNext]_vars

----------------------------------------------------------------------------
(* The delegate client on the response of its request *)

(* message.content of a completion: a string, or an array of strings *)
Content(raw) == [type |-> "string", raw |-> raw]
Array(items) == [type |-> "array", items |-> items]

(* flattenOpenRouterContent(content): the string itself, the trimmed items *)
(* of an array, and "" for undefined and null                              *)
flattenOpenRouterContent(content) ==
  CASE content.type = "string" -> content.raw
    [] content.type = "array" ->
         Strip(Concat([i \in 1..Len(content.items) |-> content.items[i]]))
    [] OTHER -> <<>>

(* payload?.choices?.[0]?.message?.content *)
messageContent(payload) ==
  IF payload.choices = 0 THEN Undefined ELSE payload.content

(* the rest of runDelegateDebate, from the response of its request *)
runDelegateDebateOn(response) ==
  IF ~response.ok THEN Rejected("HTTP 500")
  ELSE IF ~response.payload.valid THEN Rejected("invalid JSON")
  ELSE LET content == flattenOpenRouterContent(messageContent(response.payload))
           parsed == parseDelegateOutput(content)
       IN [status |-> "fulfilled", vote |-> parsed.vote,
           confidence |-> parsed.confidence, argument |-> parsed.argument,
           rebuttal |-> parsed.rebuttal, reason |-> NoReason]

(* bodies: text that is not JSON, JSON without choices (an error object,   *)
(* an empty choices array), and a completion with or without content      *)
Payloads ==
  {[valid |-> FALSE, choices |-> 0, content |-> Undefined],
   [valid |-> TRUE, choices |-> 0, content |-> Undefined]}
    \cup {[valid |-> TRUE, choices |-> 1, content |-> c] :
            c \in {Undefined, Null, Array(<<>>)}
                    \cup {Content(raw) : raw \in ProseTexts \cup JsonTexts}
                    \cup {Array(<<raw>>) : raw \in JsonTexts}}

(* responses: a status that is not 2xx, or a 2xx with one of the bodies *)
Responses ==
  {[ok |-> FALSE, payload |-> [valid |-> FALSE, choices |-> 0, content |-> Undefined]]}
    \cup {[ok |-> TRUE, payload |-> p] : p \in Payloads}

ResponseInit == InitAlone /\ given \in Responses

Respond == Return(runDelegateDebateOn(given))

ResponseNext == Respond

ResponseSpec == ResponseInit /\ [][ResponseNext]_vars

----------------------------------------------------------------------------
(* Properties *)

Closed(d) == d \in DOMAIN debates /\ debates[d].status = "closed"

Published(d, type) ==
  \E i \in 1..Len(events) : events[i].debateId = d /\ events[i].type = type

Outstanding(cs) == {i \in 1..Len(cs) : cs[i].status = "pending"}

Failed(cs) == {i \in 1..Len(cs) : cs[i].status = "rejected"}

Voted(cs, vote) ==
  {i \in 1..Len(cs) : cs[i].status = "fulfilled" /\ cs[i].vote = vote}

VoteRows(d) == RowsOf(delegateVotes, d)

DelegateMessages(table, d) ==
  SelectSeq(table, LAMBDA m : m.debateId = d /\ m.actorType = "delegate")

VotesOf(table, d) == SelectSeq(table, LAMBDA r : r.debateId = d)

ModelIds(rows) == [i \in 1..Len(rows) |-> rows[i].modelId]
ActorIds(rows) == [i \in 1..Len(rows) |-> rows[i].actorId]

RECURSIVE Sum(_, _)
Sum(f, S) == IF S = {} THEN 0 ELSE LET x == CHOOSE y \in S : TRUE
                                   IN f[x] + Sum(f, S \ {x})

Abs(x) == IF x < 0 THEN -x ELSE x

(* p is a/b * 100 rounded to a nearest integer *)
NearestPct(p, a, b) == 2 * Abs(100 * a - p * b) <= b

ZeroConsensus ==
  [verdict |-> "Intelligent", intelligentVotes |-> 0, idioticVotes |-> 0,
   totalVotes |-> 0, intelligentPct |-> 50, idioticPct |-> 50]

(* C1: the debate row goes from 'active' to 'closed' only in a step before *)
(* which every delegate call of the debate has settled, a closed row is    *)
(* never written again, and no debate is closed with a call outstanding.   *)
C1_ClosedOnceAfterAllSettled ==
  [][\A d \in Debates :
       /\ (d \in DOMAIN debates' /\ debates'[d].status = "closed")
            => /\ d \in DOMAIN debates
               /\ Outstanding(calls[d]) = {}
               /\ Outstanding(calls'[d]) = {}
               /\ Len(calls[d]) = Len(delegateIds[d])
       /\ Closed(d) => debates'[d] = debates[d]]_vars

C1_Witness ==
  \E d \in Debates :
    Closed(d) /\ Len(calls[d]) >= 2 /\ Failed(calls[d]) # {}

(* C2: whatever subset of the calls fails, a started debate is eventually  *)
(* closed with debate_completed published, unless a store write failed;    *)
(* a rejected call is never what the handler throws.                       *)
C2_PartialFailureTolerance ==
  \A d \in Debates :
    /\ [](thrown[d].at # "delegate")
    /\ (pc[d] = "awaiting") ~>
         ((Closed(d) /\ Published(d, "debate_completed") /\ pc[d] = "done")
            \/ thrown[d].at \in {"tx", "close", "resolution", "message"})

C2_Witness ==
  \E d \in Debates :
    /\ pc[d] = "done" /\ Closed(d) /\ Published(d, "debate_completed")
    /\ Failed(calls[d]) # {}
    /\ Failed(calls[d]) # 1..Len(calls[d])

(* C3: when every dispatched call failed, the closed debate row holds      *)
(* verdict Intelligent, 0 / 0 / 0 votes and 50 / 50 percent.               *)
C3_AllFailedConsensus ==
  \A d \in Debates :
    (pc[d] = "done" /\ Failed(calls[d]) = 1..Len(calls[d]))
      => /\ Closed(d)
         /\ mapDebateRow(debates[d]).consensus = ZeroConsensus

(* C4: for a set of outcomes with as many Intelligent as Idiotic voters    *)
(* (none of each included), the verdict of both versions of                *)
(* computeConsensus is Idiotic exactly when the confidences of the Idiotic *)
(* voters sum to more than those of the Intelligent voters.                *)
C4_TieBreak ==
  computed # <<>> =>
    \A k \in 1..Len(computed) :
      LET c == computed[k]
          conf == [i \in 1..Len(results) |-> results[i].confidence]
          idiotic == Sum(conf, Voted(results, "Idiotic"))
          intelligent == Sum(conf, Voted(results, "Intelligent"))
      IN Cardinality(Voted(results, "Intelligent")) = Cardinality(Voted(results, "Idiotic"))
           => /\ c.verdict \in {"Intelligent", "Idiotic"}
              /\ c.verdict = "Idiotic" <=> idiotic > intelligent

(* C5: the tallies count the calls that did not fail and nothing else:     *)
(* totalVotes is their number, and each vote count is the number of        *)
(* fulfilled calls with that vote, whatever the failure reasons are.       *)
C5_FailuresExcluded ==
  computed # <<>> =>
    \A k \in 1..Len(computed) :
      LET c == computed[k]
      IN /\ c.totalVotes = Len(results) - Cardinality(Failed(results))
         /\ c.intelligentVotes + c.idioticVotes = c.totalVotes
         /\ c.intelligentVotes = Cardinality(Voted(results, "Intelligent"))
         /\ c.idioticVotes = Cardinality(Voted(results, "Idiotic"))

(* C6: the two percentages of a consensus sum to 100 and lie in 0..100;    *)
(* intelligentPct is intelligentVotes / totalVotes * 100 rounded to a      *)
(* nearest integer, and 50 when there is no vote.                          *)
C6_Percentages ==
  computed # <<>> =>
    \A k \in 1..Len(computed) :
      LET c == computed[k]
      IN /\ c.intelligentPct + c.idioticPct = 100
         /\ c.intelligentPct \in 0..100
         /\ c.idioticPct \in 0..100
         /\ IF c.totalVotes > 0
              THEN NearestPct(c.intelligentPct, c.intelligentVotes, c.totalVotes)
              ELSE c.intelligentPct = 50

C6_Witness ==
  /\ computed # <<>>
  /\ computed[1].totalVotes = 3
  /\ computed[1].intelligentVotes = 2
  /\ computed[1].intelligentPct = 67
  /\ computed[1].idioticPct = 33

(* C7: every row of the debates table has percentages that sum to 100 and  *)
(* agree with the row's vote counts.                                       *)
C7_StoredPercentages ==
  \A id \in DOMAIN debates :
    LET row == debates[id]
    IN /\ row.intelligentPct + row.idioticPct = 100
       /\ IF row.totalVotes > 0
            THEN NearestPct(row.intelligentPct, row.intelligentVotes, row.totalVotes)
            ELSE row.intelligentPct = 50

(* C8: the delegate vote rows and the delegate messages of a debate are    *)
(* written in the order of the delegate IDs supplied, and the view the     *)
(* handler returns lists them in that order.                               *)
C8_DispatchOrder ==
  \A d \in Debates :
    /\ VoteRows(d) # {} =>
         /\ ModelIds(VotesOf(delegateVotes, d)) = delegateIds[d]
         /\ ActorIds(DelegateMessages(messages, d)) = delegateIds[d]
    /\ pc[d] = "done" =>
         \A view \in getDebateById(debates, delegateVotes, messages, d) :
           /\ ModelIds(view.delegateResults) = delegateIds[d]
           /\ ActorIds(DelegateMessages(view.messages, d)) = delegateIds[d]

(* C9: between any two steps of the server, a debate has either no         *)
(* delegate vote row or one row per dispatched delegate.                   *)
C9_AllOrNothing ==
  \A d \in Debates :
    d \in DOMAIN debates =>
      Cardinality(VoteRows(d)) \in {0, Len(delegateIds[d])}

C9_Witness ==
  \E d \in Debates :
    /\ Len(delegateIds[d]) >= 2
    /\ Cardinality(VoteRows(d)) = Len(delegateIds[d])

(* C10: after an insert of the delegate-outcome transaction failed, the    *)
(* debate has no delegate vote row and no delegate message, the handler    *)
(* has thrown and returned no view, the debate row is still 'active' with  *)
(* a null verdict, and debate_completed was not published.                 *)
C10_PersistenceFailure ==
  \A d \in Debates :
    thrown[d].at = "tx" =>
      /\ VoteRows(d) = {}
      /\ DelegateMessages(messages, d) = <<>>
      /\ pc[d] = "failed"
      /\ returned[d] = NoView
      /\ debates[d].status = "active"
      /\ debates[d].verdict = NULL
      /\ ~Published(d, "debate_completed")

C10_Witness ==
  \E d \in Debates :
    /\ thrown[d].at = "tx"
    /\ thrown[d].index >= 2

(* C11: every delegate vote row is of one of two shapes, and of one only:  *)
(* a vote (Intelligent or Idiotic) with a confidence and a NULL error, or  *)
(* a non-NULL error with NULL vote, confidence, argument and rebuttal.     *)
C11_VoteXorError ==
  \A i \in 1..Len(delegateVotes) :
    LET r == delegateVotes[i]
        voted == /\ r.vote \in {"Intelligent", "Idiotic"}
                 /\ r.confidence # NullInt
                 /\ r.error = NULL
        failed == /\ r.error # NULL
                  /\ r.vote = NULL
                  /\ r.confidence = NullInt
                  /\ r.argument = NULL
                  /\ r.rebuttal = NULL
    IN (voted \/ failed) /\ ~(voted /\ failed)

C11_Witness ==
  /\ \E i \in 1..Len(delegateVotes) : delegateVotes[i].error = NULL
  /\ \E i \in 1..Len(delegateVotes) : delegateVotes[i].error \in RejectReasons

(* C12: once the handler of a debate dispatched to N delegates has         *)
(* returned, the store holds N delegate vote rows of the debate, one per   *)
(* dispatched delegate ID, as many of them with an error as calls failed;  *)
(* the returned view held these rows, every view read later holds N rows,  *)
(* and after any later operation the rows are still the returned ones.     *)
C12_OneRowPerDelegate ==
  \A d \in Debates :
    pc[d] = "done" =>
      LET N == Len(delegateIds[d])
          rows == {delegateVotes[i] : i \in VoteRows(d)}
      IN /\ Cardinality(VoteRows(d)) = N
         /\ Cardinality(Range(delegateIds[d])) = N
         /\ {r.modelId : r \in rows} = Range(delegateIds[d])
         /\ Cardinality({i \in VoteRows(d) : delegateVotes[i].error # NULL})
              = Cardinality(Failed(calls[d]))
         /\ returned[d].delegateResults = rows
         /\ \A view \in getDebateById(debates, delegateVotes, messages, d) :
              Len(view.delegateResults) = N

C12_Witness ==
  \E d \in Debates :
    /\ pc[d] = "done"
    /\ Len(delegateIds[d]) = 2
    /\ Cardinality(Failed(calls[d])) = 1
    /\ \E i \in 1..Len(events) : \E j \in (i + 1)..Len(events) :
         /\ events[i].debateId = d /\ events[i].type = "debate_completed"
         /\ events[j].debateId = d /\ events[j].type = "human_vote"

Positions(log, d, type) ==
  {i \in 1..Len(log) : log[i].debateId = d /\ log[i].type = type}

(* C13: per debate, debate_started is published once, in the step that     *)
(* creates the debate row and dispatches the calls, no call having been    *)
(* dispatched or settled before; debate_completed is published at most     *)
(* once, in a step that leaves the debate row closed, and after            *)
(* debate_started.                                                         *)
C13_EventOrder ==
  [][\A d \in Debates :
       LET started == Positions(events, d, "debate_started")
           started2 == Positions(events', d, "debate_started")
           completed == Positions(events, d, "debate_completed")
           completed2 == Positions(events', d, "debate_completed")
       IN /\ Cardinality(started2) <= 1
          /\ Cardinality(completed2) <= 1
          /\ started2 # started
               => /\ d \notin DOMAIN debates
                  /\ d \in DOMAIN debates'
                  /\ debates'[d].status = "active"
                  /\ calls[d] = <<>>
                  /\ Outstanding(calls'[d]) = 1..Len(calls'[d])
          /\ calls'[d] # calls[d] => started2 # {}
          /\ d \in DOMAIN debates' => started2 # {}
          /\ completed2 # completed
               => /\ started # {}
                  /\ debates[d].status = "active"
                  /\ debates'[d].status = "closed"
          /\ \A i \in started2, j \in completed2 : i < j]_vars

C13_Witness ==
  \E d \in Debates :
    /\ Positions(events, d, "debate_started") # {}
    /\ Positions(events, d, "debate_completed") # {}
    /\ Failed(calls[d]) # {}

(* C14: the consensus of the debate_completed event of a debate, the       *)
(* consensus stored on its row and the consensus of the view the handler   *)
(* returned are the same record, and the event's totalDelegates is the     *)
(* number of delegates dispatched, the failed ones included.               *)
C14_OneConsensus ==
  \A d \in Debates :
    /\ pc[d] = "done" => Positions(events, d, "debate_completed") # {}
    /\ \A i \in Positions(events, d, "debate_completed") :
         /\ events[i].consensus = mapDebateRow(debates[d]).consensus
         /\ events[i].consensus = returned[d].consensus
         /\ events[i].consensus.verdict \in {"Intelligent", "Idiotic"}
         /\ events[i].totalDelegates = Len(delegateIds[d])
         /\ events[i].totalDelegates = Len(calls[d])

C14_Witness ==
  \E d \in Debates :
    \E i \in Positions(events, d, "debate_completed") :
      /\ events[i].totalDelegates = 2
      /\ Cardinality(Failed(calls[d])) = 1
      /\ events[i].consensus.totalVotes = 1
      /\ events[i].consensus.idioticPct = 100

(* the positions of the log after position n that hold an event of debate  *)
(* d, in increasing order                                                  *)
RECURSIVE Since(_, _, _)
Since(log, n, d) ==
  IF Len(log) <= n THEN <<>>
  ELSE LET before == Since(SubSeq(log, 1, Len(log) - 1), n, d)
       IN IF log[Len(log)].debateId = d THEN Append(before, Len(log)) ELSE before

(* C15: a stream holds only events that were published while its listener  *)
(* was registered: every event it was sent is at a position of the log     *)
(* after the length the log had when the stream opened, and a connection   *)
(* without an open stream was sent nothing.                                *)
C15_NoReplay ==
  \A s \in Sessions :
    /\ streams[s] = NoStream => delivered[s] = <<>>
    /\ \A k \in Range(delivered[s]) :
         /\ k \in 1..Len(events)
         /\ k > streams[s].since

C15_Witness ==
  \E s \in Sessions :
    /\ streams[s] # NoStream
    /\ streams[s].since >= 1
    /\ events[streams[s].since].debateId = streams[s].debateId
    /\ delivered[s] # <<>>

(* C16: an open stream of debate X was sent every event published for X    *)
(* since it opened, once and in order, and no event of another debate.     *)
C16_TopicIsolation ==
  \A s \in Sessions :
    streams[s] # NoStream =>
      delivered[s] = Since(events, streams[s].since, streams[s].debateId)

C16_Witness ==
  \E s \in Sessions :
    /\ streams[s] # NoStream
    /\ \E k \in (streams[s].since + 1)..Len(events) :
         /\ events[k].debateId # streams[s].debateId
         /\ events[k].debateId \in DOMAIN debates

(* The positions of the log at which a vote of user u on debate d was      *)
(* processed: a human_vote event, or, for the vote sent with a submission, *)
(* the debate_completed event of the step that records it                  *)
VotesAt(d, u) ==
  {k \in 1..Len(events) :
     /\ events[k].debateId = d
     /\ \/ events[k].type = "human_vote" /\ events[k].userId = u
        \/ /\ events[k].type = "debate_completed"
           /\ u = DefaultUser
           /\ userVote[d] # <<>>}

VoteAt(k) ==
  IF events[k].type = "human_vote"
    THEN events[k].vote
    ELSE normalizeVote(userVote[events[k].debateId])

MaxOf(S) == CHOOSE x \in S : \A y \in S : y <= x

Voters == {getCurrentUser(header) : header \in Headers}

(* C17: for every debate and user, human_votes holds no row when no vote   *)
(* of the user on the debate was processed, and otherwise one row, whose   *)
(* vote and time are those of the last vote processed for the pair.        *)
C17_HumanVoteUpsert ==
  \A d \in DOMAIN debates \cup AllDebates, u \in Voters :
    LET rows == {r \in humanVotes : r.debateId = d /\ r.userId = u}
        at == VotesAt(d, u)
    IN IF at = {}
         THEN rows = {}
         ELSE rows = {humanVote(d, u, VoteAt(MaxOf(at)), events[MaxOf(at)].at)}

C17_Witness ==
  \E r \in humanVotes :
    \E k \in VotesAt(r.debateId, r.userId) :
      /\ k < MaxOf(VotesAt(r.debateId, r.userId))
      /\ VoteAt(k) # r.vote

(* C19: a step that accepts a human vote or a human argument leaves the    *)
(* status and the consensus of every debate row and every delegate vote    *)
(* row as they were; an accepted argument appends one message, of actor    *)
(* type human, and an accepted vote appends none.                          *)
C19_HumanFrame ==
  [][(served' = served + 1 /\ last' \in {"human-vote 201", "human-argument 201"})
       => /\ DOMAIN debates' = DOMAIN debates
          /\ \A d \in DOMAIN debates : mapDebateRow(debates'[d]) = mapDebateRow(debates[d])
          /\ delegateVotes' = delegateVotes
          /\ IF last' = "human-argument 201"
               THEN /\ Len(messages') = Len(messages) + 1
                    /\ SubSeq(messages', 1, Len(messages)) = messages
                    /\ messages'[Len(messages')].actorType = "human"
               ELSE messages' = messages]_vars

C19_Witness ==
  \E d \in Debates :
    /\ Closed(d)
    /\ VoteRows(d) # {}
    /\ \E i \in 1..Len(messages) : \E j \in (i + 1)..Len(messages) :
         /\ messages[i].debateId = d /\ messages[i].actorType = "human"
         /\ messages[j].debateId = d /\ messages[j].actorType = "delegate"

Idi(s, k) ==
  /\ Len(s) >= k + 2
  /\ s[k] \in {"i", "I"}
  /\ s[k + 1] \in {"d", "D"}
  /\ s[k + 2] \in {"i", "I"}

(* C18: normalizing a normalized vote gives the same vote; a text maps to  *)
(* Idiotic exactly when, in lowercase, it starts with "idi", and to        *)
(* Intelligent otherwise.                                                  *)
C18_NormalizeVote ==
  normalizedVote # <<>> =>
    /\ normalizedVote[2] = normalizedVote[1]
    /\ normalizedVote[1] \in {"Idiotic", "Intelligent"}
    /\ normalizedVote[1] = "Idiotic" <=> Idi(voteText, 1)

(* C18, with the trimming: a text maps to Idiotic exactly when what        *)
(* follows its leading spaces starts, in lowercase, with "idi".            *)
C18_NormalizeTrimmedVote ==
  normalizedVote # <<>> =>
    /\ normalizedVote[2] = normalizedVote[1]
    /\ normalizedVote[1] \in {"Idiotic", "Intelligent"}
    /\ normalizedVote[1] = "Idiotic"
         <=> \E k \in 1..Len(voteText) :
               /\ \A j \in 1..(k - 1) : voteText[j] = " "
               /\ Idi(voteText, k)

C18_Witness ==
  /\ normalizedVote # <<>>
  /\ normalizedVote[1] = "Idiotic"
  /\ voteText = <<" ", "I", "d", "I">>

(* C20: a submit request whose trimmed title or body is empty is answered  *)
(* 400 and leaves every table (users, resolutions, picks, debates,         *)
(* messages, votes, snapshots) as it was, and publishes no event.          *)
C20_InvalidInput ==
  [][(served' = served + 1 /\ last' = "submit 400")
       => UNCHANGED <<users, store, events, delivered>>]_vars

NoDuplicate(s) == Cardinality(Range(s)) = Len(s)

KnownRequested(catalog, delegates) ==
  {TrimId(delegates[i]) : i \in 1..Len(delegates)} \cap Range(catalog)

(* C21: the list pickDelegates returns for a submit is non-empty, has no   *)
(* duplicate id, only ids of the catalog and at most 6 entries; when no    *)
(* requested id is known, or none is requested, it is the first 4 catalog  *)
(* entries by rank (the whole catalog when it has fewer).                  *)
C21_DelegateSelection ==
  (got # <<>> /\ given \in PickInputs) =>
    LET picked == got[1]
    IN /\ picked # <<>>
       /\ NoDuplicate(picked)
       /\ Range(picked) \subseteq Range(given.catalog)
       /\ Len(picked) <= 6
       /\ KnownRequested(given.catalog, given.delegates) = {}
            => picked = SubSeq(given.catalog, 1, Min(4, Len(given.catalog)))
       /\ KnownRequested(given.catalog, given.delegates) # {}
            => Range(picked) \subseteq KnownRequested(given.catalog, given.delegates)

C21_Witness ==
  /\ got # <<>>
  /\ given \in PickInputs
  /\ Cardinality(KnownRequested(given.catalog, given.delegates)) = 7
  /\ Len(got[1]) = 6
  /\ \E i, j \in 1..Len(given.delegates) :
       i # j /\ TrimId(given.delegates[i]) = TrimId(given.delegates[j])

FinalVerdict(d) ==
  \E i \in 1..Len(messages) : messages[i] \in {SystemMessage(d, "verdict", t) : t \in 0..MaxClock}

(* C22: between any two steps, an active debate has no verdict and a       *)
(* resolution that is 'debating'; a closed debate has a verdict that is    *)
(* Intelligent or Idiotic, a closed resolution and a final-verdict system  *)
(* message, also when a store write of the finalization has failed.        *)
C22_StatusCoherence ==
  \A d \in DOMAIN debates \cap Debates :
    /\ debates[d].status = "active"
         => debates[d].verdict = NULL /\ resolutions[d].status = "debating"
    /\ debates[d].status = "closed"
         => /\ debates[d].verdict \in {"Intelligent", "Idiotic"}
            /\ resolutions[d].status = "closed"
            /\ FinalVerdict(d)

Fields(row) ==
  [modelId |-> row.modelId, vote |-> row.vote, confidence |-> row.confidence,
   argument |-> row.argument, rebuttal |-> row.rebuttal, error |-> row.error]

Untimed(message) == [message EXCEPT !.createdAt = 0]

EventsOf(log, d) == SelectSeq(log, LAMBDA e : e.debateId = d)

(* what a debate that ran alone leaves, from its own delegates and the     *)
(* outcomes of its own calls                                               *)
AloneRows(d) ==
  [i \in 1..Len(calls[d]) |-> delegateRow(calls[d][i], delegateIds[d][i], 0)]

AloneTranscript(d) ==
  <<SystemMessage(d, "opened", 0)>>
    \o [i \in 1..Len(calls[d]) |->
          Untimed(delegateMessage(d, calls[d][i], AloneRows(d)[i]))]
    \o <<SystemMessage(d, "verdict", 0)>>

(* C23: whatever the interleaving of two submit handlers, a finished       *)
(* debate's vote rows, transcript, consensus and events are those that its *)
(* own delegates and call outcomes give, and each row and event of a       *)
(* handler carries its own debate's id.                                    *)
C23_IndependentDebates ==
  /\ \A i \in 1..Len(delegateVotes) : delegateVotes[i].debateId \in DOMAIN debates
  /\ \A i \in 1..Len(messages) : messages[i].debateId \in DOMAIN debates
  /\ \A i \in 1..Len(events) : events[i].debateId \in DOMAIN debates
  /\ \A d \in AllDebates :
       /\ pc[d] = "awaiting"
            => /\ VotesOf(delegateVotes, d) = <<>>
               /\ VotesOf(messages, d) = <<SystemMessage(d, "opened", debates[d].createdAt)>>
               /\ Len(EventsOf(events, d)) = 1
       /\ pc[d] = "done"
            => LET rows == VotesOf(delegateVotes, d)
                   transcript == VotesOf(messages, d)
                   log == EventsOf(events, d)
                   alone == computeConsensus(AloneRows(d))
               IN /\ [i \in 1..Len(rows) |-> Fields(rows[i])]
                       = [i \in 1..Len(calls[d]) |-> Fields(AloneRows(d)[i])]
                  /\ [i \in 1..Len(transcript) |-> Untimed(transcript[i])]
                       = AloneTranscript(d)
                  /\ mapDebateRow(debates[d]).consensus = alone
                  /\ returned[d].consensus = alone
                  /\ Len(log) = 2
                  /\ log[1].type = "debate_started"
                  /\ log[2].type = "debate_completed"
                  /\ log[2].consensus = alone
                  /\ log[2].totalDelegates = Len(delegateIds[d])

C23_Witness ==
  /\ pc["d1"] = "done"
  /\ pc["d2"] = "done"
  /\ delegateIds["d1"] # delegateIds["d2"]
  /\ debates["d1"].verdict # debates["d2"].verdict
  /\ \E i, j \in 1..Len(messages) :
       /\ i < j
       /\ messages[i].debateId = "d2" /\ messages[i].kind = "opened"
       /\ messages[j].debateId = "d1" /\ messages[j].kind = "verdict"
  /\ \E i, j \in 1..Len(messages) :
       /\ i < j
       /\ messages[i].debateId = "d1" /\ messages[i].kind = "opened"
       /\ messages[j].debateId = "d2" /\ messages[j].kind = "verdict"

(* C24: the step that dispatches starts one call per delegate, all of them *)
(* before the handler waits; while the handler waits, every pending call   *)
(* can settle whatever the state of the others; and the handler leaves its *)
(* wait only in a step before which no call is pending, never on a first   *)
(* failure.                                                                *)
C24_ConcurrentSettleAll ==
  /\ [][\A d \in Debates :
          /\ (pc[d] = "idle" /\ pc'[d] # "idle")
               => /\ pc'[d] = "awaiting"
                  /\ Len(calls'[d]) = Len(delegateIds'[d])
                  /\ Outstanding(calls'[d]) = 1..Len(delegateIds'[d])
          /\ (pc[d] = "awaiting" /\ pc'[d] # "awaiting")
               => /\ Outstanding(calls[d]) = {}
                  /\ thrown'[d].at # "delegate"]_vars
  /\ [](\A d \in Debates :
          pc[d] = "awaiting" =>
            \A i \in Outstanding(calls[d]) : ENABLED Settle(d, i))

C24_Witness ==
  \E d \in Debates :
    /\ pc[d] = "awaiting"
    /\ Len(calls[d]) = 2
    /\ calls[d][1].status = "pending"
    /\ calls[d][2].status = "rejected"

IsPrefix(s, t) == Len(s) <= Len(t) /\ SubSeq(t, 1, Len(s)) = s

(* C25: a debate has one call per selected delegate and no delegate twice; *)
(* a call that has settled is never made again and keeps its outcome; and  *)
(* the row stored for a failed call is a failure and stays as written.     *)
C25_NoRetry ==
  /\ [](\A d \in Debates :
          /\ pc[d] # "idle"
               => /\ Len(calls[d]) = Len(delegateIds[d])
                  /\ NoDuplicate(delegateIds[d])
          /\ pc[d] = "done"
               => LET rows == VotesOf(delegateVotes, d)
                  IN /\ Len(rows) = Len(calls[d])
                     /\ \A i \in Failed(calls[d]) :
                          /\ rows[i].modelId = delegateIds[d][i]
                          /\ rows[i].vote = NULL
                          /\ rows[i].error = errorMessage(calls[d][i].reason))
  /\ [][\A d \in Debates :
          /\ pc[d] # "idle" => delegateIds'[d] = delegateIds[d]
          /\ pc[d] # "idle" => Len(calls'[d]) = Len(calls[d])
          /\ \A i \in 1..Len(calls[d]) :
               calls[d][i].status # "pending" => calls'[d][i] = calls[d][i]
          /\ IsPrefix(VotesOf(delegateVotes, d), VotesOf(delegateVotes', d))]_vars

C25_Witness ==
  \E d \in Debates :
    /\ pc[d] = "done"
    /\ Len(calls[d]) = 2
    /\ calls[d][1].status = "rejected"
    /\ calls[d][2].status = "fulfilled"
    /\ VotesOf(delegateVotes, d)[1].error = "HTTP 500"

Count(table, d, actorType, kind) ==
  Cardinality({i \in 1..Len(table) :
                 /\ table[i].debateId = d
                 /\ table[i].actorType = actorType
                 /\ table[i].kind = kind})

Accepted(log, d) ==
  Cardinality({i \in 1..Len(log) :
                 log[i].debateId = d /\ log[i].type = "human_argument"})

(* one opened message, one message per dispatched delegate, one            *)
(* final-verdict message and one message per accepted human argument       *)
WholeTranscript(d) ==
  /\ Count(messages, d, "system", "opened") = 1
  /\ Count(messages, d, "delegate", "argument") + Count(messages, d, "delegate", "failed")
       = Len(delegateIds[d])
  /\ Count(messages, d, "system", "verdict") = 1
  /\ Count(messages, d, "human", "argument") = Accepted(events, d)
  /\ Len(VotesOf(messages, d)) = 2 + Len(delegateIds[d]) + Accepted(events, d)

(* C27: no step changes or removes a message that is stored, so a later    *)
(* read of a transcript holds every message of an earlier one; and the     *)
(* transcript of a closed debate is one opened message, one message per    *)
(* dispatched delegate, one final-verdict message and one message per      *)
(* accepted human argument.                                                *)
C27_AppendOnlyTranscript ==
  /\ [][IsPrefix(messages, messages')]_vars
  /\ [](\A d \in Debates : Closed(d) => WholeTranscript(d))

(* a confidence, counted in tenths, that is a whole number from 1 to 100 *)
WholeConfidence(tenths) == tenths % 10 = 0 /\ tenths \div 10 \in 1..100

(* C28: for every raw text (an object alone, an object in prose, a         *)
(* malformed object, prose, the empty text) parseDelegateOutput returns a  *)
(* record with a vote that is Intelligent or Idiotic, a confidence that is *)
(* a whole number from 1 to 100 and an argument that is not empty.         *)
C28_ParserNeverFails ==
  (got # <<>> /\ given \in ParserInputs) =>
    /\ got[1].vote \in {"Intelligent", "Idiotic"}
    /\ WholeConfidence(got[1].confidence)
    /\ got[1].argument # <<>>

(* a confidence field that holds a number, or a string of digits *)
Numeric(field) ==
  \/ field.type = "number"
  \/ field.type = "string" /\ field.chars # <<>> /\ AllDigits(field.chars)

Clamped(tenths) == IF tenths < 10 THEN 10 ELSE IF tenths > 1000 THEN 1000 ELSE tenths

(* C29: when the parser obtained a JSON object, the confidence is 55 if the *)
(* confidence field is absent or not numeric, and otherwise the number of  *)
(* the field brought into 1..100: 1 for every number below 1, 0 included,  *)
(* and 100 for every number above 100.                                     *)
C29_ConfidenceRule ==
  (got # <<>> /\ given \in ParserInputs
     /\ maybeParseJsonObject(given.rawText).type = "object") =>
    LET field == Get(maybeParseJsonObject(given.rawText), "confidence")
    IN got[1].confidence
         = IF Numeric(field) THEN Clamped(ToNumber(field).tenths) ELSE 550

Contains(s, part) ==
  \E i \in 1..Len(s) : i + Len(part) - 1 <= Len(s) /\ SubSeq(s, i, i + Len(part) - 1) = part

(* plain prose: a text in which the parser finds no JSON object *)
PlainProse(raw) == maybeParseJsonObject(raw).type # "object"

(* the first whole word Intelligent or Idiotic of s, in any case, is       *)
(* Idiotic                                                                 *)
FirstVoteIdiotic(s) ==
  \E i \in 1..Len(s) :
    /\ WordAt(s, i, Idiotic)
    /\ \A j \in 1..(i - 1) : ~WordAt(s, j, Intelligent)

(* the first number of one to three digits of s that starts a word and is  *)
(* followed by a percent sign, after spaces or none, is 72                 *)
FirstPercent72(s) ==
  \E i \in 1..Len(s) :
    /\ DigitsAt(s, i, 2)
    /\ SubSeq(s, i, i + 1) = <<"7", "2">>
    /\ \A j \in 1..(i - 1) : \A k \in 1..3 : ~DigitsAt(s, j, k)

EmptyRecord(record) ==
  /\ record.vote = "Intelligent"
  /\ record.confidence = 550
  /\ record.argument = NoArgument

(* C30: parsing any plain prose that contains "Idiotic" and "72%" gives    *)
(* the vote Idiotic and the confidence 72; parsing the empty text gives    *)
(* Intelligent, 55 and "No argument returned.".                            *)
C30_ParserRobustness ==
  (got # <<>> /\ given \in ParserInputs) =>
    LET chars == Flatten(given.rawText)
    IN /\ (/\ PlainProse(given.rawText)
           /\ Contains(chars, Idiotic)
           /\ Contains(chars, <<"7", "2", "%">>))
            => got[1].vote = "Idiotic" /\ got[1].confidence = 720
       /\ chars = <<>> => EmptyRecord(got[1])

(* C30, for the first matches: parsing plain prose whose first whole word  *)
(* Intelligent or Idiotic is Idiotic, and whose first percentage of one to *)
(* three digits is 72, gives the vote Idiotic and the confidence 72;       *)
(* parsing the empty text gives Intelligent, 55 and "No argument           *)
(* returned.".                                                             *)
C30_FirstMatchRobustness ==
  (got # <<>> /\ given \in ParserInputs) =>
    LET chars == Flatten(given.rawText)
    IN /\ (PlainProse(given.rawText) /\ FirstVoteIdiotic(chars))
            => got[1].vote = "Idiotic"
       /\ (PlainProse(given.rawText) /\ FirstPercent72(chars))
            => got[1].confidence = 720
       /\ chars = <<>> => EmptyRecord(got[1])

C30_Witness ==
  /\ got # <<>>
  /\ given \in ParserInputs
  /\ PlainProse(given.rawText)
  /\ FirstVoteIdiotic(Flatten(given.rawText))
  /\ FirstPercent72(Flatten(given.rawText))
  /\ Contains(Flatten(given.rawText), Intelligent)
  /\ got[1].vote = "Idiotic"
  /\ got[1].confidence = 720

StatusRank(status) ==
  CASE status = "draft" -> 0
    [] status = "submitted" -> 1
    [] status = "debating" -> 2
    [] status = "closed" -> 3

(* C31: a step leaves every resolution row in place, with its status as it *)
(* was or one stage further along draft, submitted, debating, closed, so   *)
(* never back and never away from closed; and the title and the body of a  *)
(* resolution that is not a draft are left as they were.                   *)
C31_ResolutionLifecycle ==
  [][\A r \in DOMAIN resolutions :
       /\ r \in DOMAIN resolutions'
       /\ StatusRank(resolutions'[r].status) - StatusRank(resolutions[r].status)
            \in {0, 1}
       /\ resolutions[r].status = "closed" => resolutions'[r].status = "closed"
       /\ resolutions[r].status # "draft"
            => /\ resolutions'[r].title = resolutions[r].title
               /\ resolutions'[r].body = resolutions[r].body]_vars

C31_Witness ==
  /\ last = "draft 200"
  /\ \E r \in DOMAIN resolutions : resolutions[r].status = "closed"
  /\ \A r \in DOMAIN resolutions : resolutions[r].status # "draft"

(* the fetches of a call did not all succeed, or no row was parsed *)
FetchFailed(sync) == sync.fetched # NoFetch /\ ~Synced(sync.fetched)

(* C32: a call of syncDelegates whose fetches failed, in any combination,  *)
(* returns in the step in which they settle, with a list that is not       *)
(* empty: the first rows, up to its limit, of the stored catalog, which it *)
(* leaves as it is, when that has rows, and of the four built-in delegates *)
(* otherwise, all four for the limit of the middleware; and once a call    *)
(* has returned, pickDelegates finds delegates for every request.          *)
C32_CatalogLookupFailure ==
  [][\A r \in SyncCallers :
       syncs[r].pc = "fetching" /\ syncs'[r] # syncs[r] =>
         /\ syncs'[r].pc = "returned"
         /\ syncs'[r].value # <<>>
         /\ FetchFailed(syncs'[r]) =>
              /\ DOMAIN delegateModels # {} =>
                   /\ delegateModels' = delegateModels
                   /\ syncs'[r].value = selectDelegates(delegateModels, syncs[r].limit)
              /\ DOMAIN delegateModels = {} =>
                   /\ syncs'[r].value = slice(BuiltIn, syncs[r].limit)
                   /\ syncs[r].limit = 20 => syncs'[r].value = BuiltIn
         /\ \E catalog \in {Ordered(delegateModels', DOMAIN delegateModels')} :
              \A requested \in Requests :
                pickDelegatesFrom(catalog, requested, FallbackLimit) # <<>>]_vars

C32_Witness ==
  \E r, q \in SyncCallers :
    /\ syncs[r].pc = "returned"
    /\ syncs[r].fetched.catalog = "failed"
    /\ syncs[r].fetched.rankings = "rejected"
    /\ syncs[r].value = BuiltIn
    /\ syncs[q].pc = "returned"
    /\ syncs[q].fetched.catalog = "ok"
    /\ syncs[q].fetched.rankings = "HTTP 500"
    /\ "m1" \in Range(syncs[q].value)

C35_VerdictAgreesWithPct ==
  computed # <<>> =>
    LET c == computed[1]
    IN /\ c.intelligentPct > 50 => c.verdict = "Intelligent"
       /\ c.idioticPct > 50 => c.verdict = "Idiotic"
       /\ c.intelligentVotes > c.idioticVotes => c.verdict = "Intelligent"
       /\ c.idioticVotes > c.intelligentVotes => c.verdict = "Idiotic"

C35_Witness ==
  /\ computed # <<>>
  /\ computed[1].idioticPct > 50
  /\ computed[1].intelligentVotes > 0
  /\ computed[1].verdict = "Idiotic"

(* C36: once a debate is closed, the aligned flag of the human_vote event  *)
(* of the vote that human_votes holds for a user on the debate (the last   *)
(* one processed) says what the user's statistics count for that row:      *)
(* that the stored vote is the debate's verdict.                           *)
C36_AlignedFlag ==
  \A i \in 1..Len(events) :
    (/\ events[i].type = "human_vote"
     /\ Closed(events[i].debateId)
     /\ MaxOf(VotesAt(events[i].debateId, events[i].userId)) = i)
      => \A row \in humanVotes :
           (row.debateId = events[i].debateId /\ row.userId = events[i].userId)
             => (events[i].aligned <=> alignedVote(row, debates))

(* a 2xx response with a JSON body that holds no message content *)
NoCompletion(response) ==
  /\ response.ok
  /\ response.payload.valid
  /\ \/ messageContent(response.payload) \in {Undefined, Null, Array(<<>>)}
     \/ messageContent(response.payload) = Content(<<>>)

(* C37: the outcome of a call whose response is 2xx with a JSON body that  *)
(* holds no message content adds no vote to the tallies computeConsensus   *)
(* makes of the call's row.                                                *)
C37_NoContentNoVote ==
  (got # <<>> /\ given \in Responses /\ NoCompletion(given)) =>
    computeConsensus(<<delegateRow(got[1], Universe[1], 0)>>).totalVotes = 0

(* C38: a step that answers a human vote with 404, or a human argument     *)
(* with 404 or 400, leaves human_votes, human_arguments, debate_messages   *)
(* and the leaderboard snapshots as they were and publishes no event.      *)
C38_RejectedHumanInput ==
  [][(served' = served + 1
        /\ last' \in {"human-vote 404", "human-argument 404", "human-argument 400"})
       => UNCHANGED <<humanVotes, humanArguments, messages, snapshots, events,
                      delivered>>]_vars

C38_Witness ==
  /\ last = "human-argument 400"
  /\ \E d \in DOMAIN debates : Closed(d)
  /\ \E s \in Sessions : streams[s] # NoStream

lastWrite ==
  LET r == CHOOSE r \in SyncCallers :
             \A q \in SyncCallers : appends[q].order <= appends[r].order
  IN appends[r].items

(* C40: once no call of appendArchive is under way, the archive in memory  *)
(* and the file write that started last both hold the record of every call *)
(* that has returned.                                                      *)
C40_NoLostRecord ==
  (\A r \in SyncCallers : appends[r].pc \in {"idle", "done"}) =>
    \A r \in SyncCallers :
      appends[r].pc = "done" =>
        /\ recordOf(r) \in Range(archiveInMemory)
        /\ recordOf(r) \in Range(lastWrite)

====
